---- MODULE Spec2Model ----
(***************************************************************************)
(* AI Personal Assistant: the expiring cache (cache.service.ts), the       *)
(* weather service and the news service that read and fill it.             *)
(*                                                                         *)
(* The cache is a JavaScript Map: its entries are kept here as a sequence  *)
(* in insertion order (a set() of a present key keeps the key's position). *)
(* Identifiers are sequences of one-character strings, so that             *)
(* toLowerCase() is a computation and not the identity.                    *)
(***************************************************************************)
EXTENDS Integers, Sequences, FiniteSets, TLC

VARIABLES
    cache,      \* CacheService.cache: Seq of [key, data, timestamp, expiresAt]
    now,        \* Date.now(), in ms
    ret,        \* the last cache operation and what it returned
    lastSet,    \* history: per key, the last set() not undone by a removal
    ops,        \* number of operations run so far, where the run length is bounded
    pending,    \* service calls waiting at their await fetch(...)
    wev,        \* the last event of a weather / news service call
    fetchCount, \* number of gateway requests issued so far
    calls,      \* number of service calls started so far
    transcript, \* the utterance last handed to the voice assistant
    command,    \* the VoiceCommand parsed from it
    currentUserId, \* VoiceAssistant.currentUserId
    appUserId,  \* the App's currentUserId
    store,      \* the documents of the database, in the order they were added
    reminders,  \* the App's in-memory reminder list
    scheduled,  \* the trigger notifications the platform holds
    firestoreUp, \* whether the database accepts requests
    notifeeUp,  \* whether the platform accepts notification requests
    dev,        \* the last handler run on the device: its input and result
    vaListening,  \* VoiceAssistant.isListening
    vaProcessing, \* VoiceAssistant.isProcessing
    engine,     \* the speech engine: idle, recording, or ended with results due
    finals,     \* final-result events the engine has emitted so far
    handling,   \* runs of onSpeechResults waiting at await executeCommand
    delivered,  \* invocations of the command-result callback, in order
    uiListening,  \* the App's isListening state
    uiProcessing, \* the App's isProcessing state
    sessions,   \* listening sessions the user has started
    started,     \* the last call of VoiceAssistant.startListening
    porcupine,    \* wake word: the engine the module holds, 0 for null
    wakeListening, \* wake word: the module's isListening
    engines,      \* wake word: the engines created so far, each "live" or "deleted"
    waiting,      \* wake word: the calls suspended at their await
    wakeCalls,    \* wake word: number of calls made so far
    accessKey,    \* wake word: ACCESS_KEY is configured
    logins,       \* handleFirebaseLogin calls suspended at an await
    accountCalls, \* number of logins and logouts started so far
    currentSessionId, \* the App's currentSessionId state
    logout        \* the confirmed logout: where it is and what it has called

\* the state of the assistant and of the App, which the cache and the
\* gateway services never touch
device == <<currentUserId, appUserId, store, reminders, scheduled, firestoreUp, notifeeUp, dev>>
session == <<vaListening, vaProcessing, engine, finals, handling, delivered, uiListening,
             uiProcessing, sessions, started>>
wake == <<porcupine, wakeListening, engines, waiting, wakeCalls, accessKey>>
account == <<logins, accountCalls, currentSessionId, logout>>
beyond == <<wake, account>>
others == <<session, beyond>>
app == <<transcript, command, device, others>>
svc == <<pending, wev, fetchCount, calls, app>>
vars == <<cache, now, ret, lastSet, ops, pending, wev, fetchCount, calls, app>>

\* JavaScript values are tagged records, so that any two of them compare
Null == [tag |-> "null"]
Undefined == [tag |-> "undefined"]
NaN == [tag |-> "NaN"]
Num(n) == [tag |-> "num", v |-> n]
Str(t) == [tag |-> "str", v |-> t]
Array(items) == [tag |-> "array", items |-> items]
EmptyList == Array(<<>>)
NoType == "none"

----------------------------------------------------------------------------
(* CacheService configuration                                              *)

weatherTTL == 10 * 60 * 1000
newsTTL == 15 * 60 * 1000
maxItems == 50

Types == {"weather", "news"}

\* variant: the lifetimes are taken in seconds, not milliseconds
ttlOf_Seconds(type) == IF type = "weather" THEN 10 * 60 ELSE 15 * 60

ttlOf(type) == IF type = "weather" THEN weatherTTL ELSE newsTTL

----------------------------------------------------------------------------
(* String.prototype.toLowerCase and generateKey                            *)

UpperCase == {"N", "Y", "L", "A", "C"}

toLowerChar(ch) ==
    CASE ch = "N" -> "n"
      [] ch = "Y" -> "y"
      [] ch = "L" -> "l"
      [] ch = "A" -> "a"
      [] ch = "C" -> "c"
      [] OTHER -> ch

toLowerCase(s) == [i \in 1..Len(s) |-> toLowerChar(s[i])]

\* variant: the key keeps the identifier's letter case
generateKey_KeepCase(type, identifier) == <<type, ":">> \o identifier

generateKey(type, identifier) == <<type, ":">> \o toLowerCase(identifier)

----------------------------------------------------------------------------
(* Map primitives on the insertion-ordered entry sequence                  *)

MapHas(c, key) == \E i \in 1..Len(c) : c[i].key = key

MapGet(c, key) == c[CHOOSE i \in 1..Len(c) : c[i].key = key]

MapDelete(c, key) == SelectSeq(c, LAMBDA e : e.key # key)

\* variant: a second set of a key adds a second entry
MapSet_Append(c, key, item) == Append(c, item)

MapSet(c, key, item) ==
    IF MapHas(c, key)
    THEN LET i == CHOOSE k \in 1..Len(c) : c[k].key = key
         IN  SubSeq(c, 1, i - 1) \o <<item>> \o SubSeq(c, i + 1, Len(c))
    ELSE Append(c, item)

MapKeys(c) == {c[i].key : i \in 1..Len(c)}

----------------------------------------------------------------------------
(* CacheService.cleanup                                                    *)

\* variant: an entry already counts as expired at the instant expiresAt
isExpired_AtDeadline(item, t) == t >= item.expiresAt

isExpired(item, t) == t > item.expiresAt

\* Array.prototype.sort with (a, b) => a.timestamp - b.timestamp is stable:
\* the entries come out by ascending timestamp, and those of one timestamp
\* in the order they have in the Map.
Timestamps(c) == {c[i].timestamp : i \in 1..Len(c)}

MinOf(S) == CHOOSE x \in S : \A y \in S : x <= y

RECURSIVE sortFrom(_, _)
sortFrom(c, stamps) ==
    IF stamps = {} THEN <<>>
    ELSE LET first == MinOf(stamps)
         IN  SelectSeq(c, LAMBDA e : e.timestamp = first)
                 \o sortFrom(c, stamps \ {first})

\* variant: the entries are taken in Map order, without sorting
sortedEntries_MapOrder(c) == c

sortedEntries(c) == sortFrom(c, Timestamps(c))

removeExpired(c, t) == SelectSeq(c, LAMBDA e : ~isExpired(e, t))

\* for (i = 0; i < itemsToRemove && i < sortedEntries.length; i++)
\*   this.cache.delete(sortedEntries[i][0])
removeOldest(c) ==
    LET sorted == sortedEntries(c)
        itemsToRemove == Len(c) - maxItems + 10
        doomed == {sorted[i].key : i \in {k \in 1..Len(sorted) : k <= itemsToRemove}}
    IN  SelectSeq(c, LAMBDA e : e.key \notin doomed)

cleanup(c, t) ==
    LET live == removeExpired(c, t)
    IN  IF Len(live) >= maxItems THEN removeOldest(live) ELSE live

----------------------------------------------------------------------------
(* CacheService.set, preload                                               *)

\* variant: the eviction pass starts one entry too late
cacheIsFull_Over(c) == Len(c) > maxItems

cacheIsFull(c) == Len(c) >= maxItems

set(c, type, identifier, data, t) ==
    LET key == generateKey(type, identifier)
        cacheItem == [key |-> key, data |-> data, timestamp |-> t,
                      expiresAt |-> t + ttlOf(type)]
        c1 == IF cacheIsFull(c) THEN cleanup(c, t) ELSE c
    IN  MapSet(c1, key, cacheItem)

\* items.forEach(item => this.set(type, item.identifier, item.data)): the
\* sets are applied left to right. The list is split in halves, and the
\* test Len(half) >= 0 (always true) makes TLC compute the store after the
\* first half before it starts on the second, which keeps the evaluation
\* shallow.
RECURSIVE preload(_, _, _, _)
preload(c, type, items, t) ==
    IF Len(items) = 0 THEN c
    ELSE IF Len(items) = 1
    THEN set(c, type, items[1].identifier, items[1].data, t)
    ELSE LET mid == Len(items) \div 2
             half == preload(c, type, SubSeq(items, 1, mid), t)
         IN  IF Len(half) >= 0
             THEN preload(half, type, SubSeq(items, mid + 1, Len(items)), t)
             ELSE half

----------------------------------------------------------------------------
(* CacheService.get, has, remove, getCacheAge: result and store afterwards *)

getResult(c, type, identifier, t) ==
    LET key == generateKey(type, identifier)
    IN  IF ~MapHas(c, key) THEN Null
        ELSE IF isExpired(MapGet(c, key), t) THEN Null
        ELSE MapGet(c, key).data

getStore(c, type, identifier, t) ==
    LET key == generateKey(type, identifier)
    IN  IF MapHas(c, key) /\ isExpired(MapGet(c, key), t)
        THEN MapDelete(c, key) ELSE c

hasResult(c, type, identifier, t) ==
    LET key == generateKey(type, identifier)
    IN  IF ~MapHas(c, key) THEN FALSE
        ELSE IF isExpired(MapGet(c, key), t) THEN FALSE
        ELSE TRUE

\* variant: the key is built without lower-casing the identifier
remove_RawKey(c, type, identifier) == MapDelete(c, generateKey_KeepCase(type, identifier))

remove(c, type, identifier) == MapDelete(c, generateKey(type, identifier))

getCacheAgeResult(c, type, identifier, t) ==
    LET key == generateKey(type, identifier)
    IN  IF ~MapHas(c, key) \/ isExpired(MapGet(c, key), t) THEN Null
        ELSE Num(t - MapGet(c, key).timestamp)

----------------------------------------------------------------------------
(* History of set() calls, kept for the round-trip property                *)

CasePairs == {<<"N", "n">>, <<"Y", "y">>, <<"L", "l">>, <<"A", "a">>, <<"C", "c">>}

SameLetter(a, b) == a = b \/ <<a, b>> \in CasePairs \/ <<b, a>> \in CasePairs

SameUpToCase(s, u) ==
    Len(s) = Len(u) /\ \A i \in 1..Len(s) : SameLetter(s[i], u[i])

KeyOf(r) == generateKey(r.type, r.id)

\* the records left after an explicit remove / forceRefresh of `key`
Forget(h, key) == {r \in h : KeyOf(r) # key}

\* the records left after an eviction pass took the store from c to c2
ForgetEvicted(h, c, c2) ==
    {r \in h : ~(MapHas(c, KeyOf(r)) /\ ~MapHas(c2, KeyOf(r)))}

Overwritten(h, type, identifier) ==
    {r \in h : ~(r.type = type /\ SameUpToCase(r.id, identifier))}

Remember(h, c, c2, type, identifier, data, t) ==
    Overwritten(ForgetEvicted(h, c, c2), type, identifier)
        \cup {[type |-> type, id |-> identifier, data |-> data, at |-> t]}

\* preload: the history keeps the direct set() calls only, and drops every
\* key that the bulk load wrote or evicted
ForgetLoaded(h, c, c2, type, items) ==
    {r \in ForgetEvicted(h, c, c2) :
        \A k \in 1..Len(items) : generateKey(type, items[k].identifier) # KeyOf(r)}

----------------------------------------------------------------------------
(* Bounds and inputs                                                       *)

Minute == 60 * 1000
MaxMinutes == 16
MaxJitter == 1
TickSteps == {1, weatherTTL, newsTTL}

CacheIds == {<<"N", "y">>, <<"n", "Y">>}
Data == {[tag |-> "W1"], [tag |-> "W2"]}
NearId == <<"N", "y">>
FullTickSteps == {weatherTTL + 1}
MaxOps == 6
MaxCalls == 2
MaxPending == 2

\* identifiers "C01", "C02", ... for bulk loading
Digit(n) == <<"0", "1", "2", "3", "4", "5", "6", "7", "8", "9">>[n + 1]
BulkId(i) == <<"C", Digit(i \div 10), Digit(i % 10)>>
BulkItems(lo, hi) ==
    [k \in 1..(hi - lo + 1) |-> [identifier |-> BulkId(lo + k - 1), data |-> [tag |-> "P"]]]
PreloadInputs == {BulkItems(1, maxItems - 2)}

NoEvent ==
    [id |-> 0, ev |-> "none", fn |-> "none", via |-> "none", arg |-> <<>>,
     outcome |-> "none", completion |-> "none", result |-> Null, stored |-> FALSE,
     hadLive |-> FALSE]

Op(op, type, identifier, result) ==
    [op |-> op, type |-> type, id |-> identifier, result |-> result]

----------------------------------------------------------------------------
(* The cache operations as actions                                         *)

\* no utterance parsed yet
NoCommand ==
    [type |-> "none", action |-> "none", title |-> Undefined, dueDate |-> Undefined,
     priority |-> "none", confidence |-> 0]

\* the cache and the gateway services right after construction
InitBackend ==
    /\ cache = <<>>
    /\ ret = Op("init", NoType, <<>>, Null)
    /\ lastSet = {}
    /\ ops = 0
    /\ pending = {}
    /\ wev = NoEvent
    /\ calls = 0
    /\ fetchCount = 0

\* no handler has run yet
NoHandler == [n |-> 0, fn |-> "none", input |-> Null, result |-> Null]

\* the device right after the App has started
\* VoiceAssistant and the App's voice state right after construction
InitSession ==
    /\ vaListening = FALSE
    /\ vaProcessing = FALSE
    /\ engine = "idle"
    /\ finals = 0
    /\ handling = {}
    /\ delivered = <<>>
    /\ uiListening = FALSE
    /\ uiProcessing = FALSE
    /\ sessions = 0
    /\ started = [n |-> 0, result |-> FALSE, engine |-> FALSE]

\* the wake word module right after it is loaded
InitEngines ==
    /\ porcupine = 0
    /\ wakeListening = FALSE
    /\ engines = <<>>
    /\ waiting = {}
    /\ wakeCalls = 0

\* no logout confirmed yet
NoLogout == [pc |-> "idle", called |-> <<>>]

\* nobody is logged in and no login is under way
InitAccount ==
    /\ logins = {}
    /\ accountCalls = 0
    /\ currentSessionId = Null
    /\ logout = NoLogout

InitOthers ==
    /\ InitSession
    /\ InitEngines
    /\ accessKey = TRUE
    /\ InitAccount

InitDevice ==
    /\ InitOthers
    /\ currentUserId = Null
    /\ appUserId = Null
    /\ store = <<>>
    /\ reminders = <<>>
    /\ scheduled = {}
    /\ dev = NoHandler

Init ==
    /\ InitBackend
    /\ InitDevice
    /\ firestoreUp = TRUE
    /\ notifeeUp = TRUE
    /\ now = 0
    /\ transcript = ""
    /\ command = NoCommand

Set(type, identifier, data) ==
    /\ cache' = set(cache, type, identifier, data, now)
    /\ lastSet' = Remember(lastSet, cache, cache', type, identifier, data, now)
    /\ ret' = Op("set", type, identifier, Null)
    /\ UNCHANGED now

Get(type, identifier) ==
    /\ cache' = getStore(cache, type, identifier, now)
    /\ ret' = Op("get", type, identifier, getResult(cache, type, identifier, now))
    /\ UNCHANGED <<now, lastSet>>

Has(type, identifier) ==
    /\ cache' = getStore(cache, type, identifier, now)
    /\ ret' = Op("has", type, identifier, hasResult(cache, type, identifier, now))
    /\ UNCHANGED <<now, lastSet>>

Remove(type, identifier) ==
    /\ cache' = remove(cache, type, identifier)
    /\ lastSet' = Forget(lastSet, generateKey(type, identifier))
    /\ ret' = Op("remove", type, identifier,
                 MapHas(cache, generateKey(type, identifier)))
    /\ UNCHANGED now

ForceRefresh(type, identifier) ==
    /\ cache' = remove(cache, type, identifier)
    /\ lastSet' = Forget(lastSet, generateKey(type, identifier))
    /\ ret' = Op("forceRefresh", type, identifier, Null)
    /\ UNCHANGED now

Clear ==
    /\ cache' = <<>>
    /\ lastSet' = {}
    /\ ret' = Op("clear", NoType, <<>>, Null)
    /\ UNCHANGED now

Cleanup ==
    /\ cache' = cleanup(cache, now)
    /\ lastSet' = ForgetEvicted(lastSet, cache, cache')
    /\ ret' = Op("cleanup", NoType, <<>>, Null)
    /\ UNCHANGED now

GetCacheAge(type, identifier) ==
    /\ ret' = Op("getCacheAge", type, identifier,
                 getCacheAgeResult(cache, type, identifier, now))
    /\ UNCHANGED <<cache, now, lastSet>>

Preload(type, items) ==
    /\ cache' = preload(cache, type, items, now)
    /\ lastSet' = ForgetLoaded(lastSet, cache, cache', type, items)
    /\ ret' = Op("preload", type, <<>>, Null)
    /\ UNCHANGED now

Tick(d) ==
    /\ now + d <= MaxMinutes * Minute
    /\ d = 1 => now % Minute < MaxJitter
    /\ now' = now + d
    /\ ret' = Op("tick", NoType, <<>>, Null)
    /\ UNCHANGED <<cache, lastSet>>

DoSet ==
    /\ \E type \in Types, identifier \in CacheIds, data \in Data :
            Set(type, identifier, data)
    /\ UNCHANGED <<ops, svc>>
DoGet ==
    /\ \E type \in Types, identifier \in CacheIds : Get(type, identifier)
    /\ UNCHANGED <<ops, svc>>
DoHas ==
    /\ \E type \in Types, identifier \in CacheIds : Has(type, identifier)
    /\ UNCHANGED <<ops, svc>>
DoRemove ==
    /\ \E type \in Types, identifier \in CacheIds : Remove(type, identifier)
    /\ UNCHANGED <<ops, svc>>
DoForceRefresh ==
    /\ \E type \in Types, identifier \in CacheIds : ForceRefresh(type, identifier)
    /\ UNCHANGED <<ops, svc>>
DoGetCacheAge ==
    /\ \E type \in Types, identifier \in CacheIds : GetCacheAge(type, identifier)
    /\ UNCHANGED <<ops, svc>>
DoClear == Clear /\ UNCHANGED <<ops, svc>>
DoCleanup == Cleanup /\ UNCHANGED <<ops, svc>>
DoTick ==
    /\ \E d \in TickSteps : Tick(d)
    /\ UNCHANGED <<ops, svc>>

Next ==
    \/ DoSet
    \/ DoGet
    \/ DoHas
    \/ DoRemove
    \/ DoForceRefresh
    \/ DoGetCacheAge
    \/ DoClear
    \/ DoCleanup
    \/ DoTick

Spec == Init /\ [][Next]_vars

\* the same operations on a store filled in bulk, up to and over maxItems,
\* in runs of at most MaxOps operations
Step == ops < MaxOps /\ ops' = ops + 1
Counted == Step /\ UNCHANGED svc

FullPreload ==
    /\ Counted
    /\ \E type \in Types, items \in PreloadInputs : Preload(type, items)
FullSet ==
    /\ Counted
    /\ \E type \in Types : Set(type, NearId, [tag |-> "W1"])
FullGet ==
    /\ Counted
    /\ \E type \in Types : Get(type, NearId) \/ Has(type, NearId)
FullRemove ==
    /\ Counted
    /\ \E type \in Types : Remove(type, NearId) \/ ForceRefresh(type, NearId)
FullClear == Counted /\ Clear
FullCleanup == Counted /\ Cleanup
FullTick ==
    /\ Counted
    /\ \E d \in FullTickSteps : Tick(d)

NextFull ==
    \/ FullPreload
    \/ FullSet
    \/ FullGet
    \/ FullRemove
    \/ FullClear
    \/ FullCleanup
    \/ FullTick

SpecFull == Init /\ [][NextFull]_vars

----------------------------------------------------------------------------
(* Gateway responses. A response is a network error (fetch rejects) or an  *)
(* HTTP status with a body; the body is text that is not JSON, or a JSON   *)
(* object whose members may be undefined.                                  *)

BadJson == [tag |-> "badJson"]

\* temperatures are in tenths of a degree, speeds in tenths of m/s
GoodWeather ==
    [tag |-> "object",
     main |-> [temp |-> Num(215), feels_like |-> Num(224),
               humidity |-> Num(65), pressure |-> Num(1013)],
     weather |-> Array(<<[description |-> Str("clear sky"), icon |-> Str("01d")]>>),
     wind |-> [speed |-> Num(30)],
     name |-> Str("New York"),
     sys |-> [country |-> Str("US")],
     visibility |-> Num(10000),
     list |-> Undefined,
     articles |-> Undefined]

\* main is there, but without temp and feels_like
PartialWeather ==
    [GoodWeather EXCEPT !.main = [temp |-> Undefined, feels_like |-> Undefined,
                                  humidity |-> Num(65), pressure |-> Num(1013)]]

EmptyObject ==
    [tag |-> "object", main |-> Undefined, weather |-> Undefined, wind |-> Undefined,
     name |-> Undefined, sys |-> Undefined, visibility |-> Undefined,
     list |-> Undefined, articles |-> Undefined]

GoodForecast == [EmptyObject EXCEPT !.list = Array(<<Str("slot1"), Str("slot2")>>)]

NetworkError == [kind |-> "networkError", status |-> 0, body |-> BadJson, name |-> "networkError"]
Http(status, body, name) == [kind |-> "http", status |-> status, body |-> body, name |-> name]

responseOk(r) == r.status >= 200 /\ r.status <= 299

Return(v) == [kind |-> "return", value |-> v, store |-> FALSE]
ReturnStored(v) == [kind |-> "return", value |-> v, store |-> TRUE]
Throw == [kind |-> "throw", value |-> Null, store |-> FALSE]

\* try { ... } catch (error) { return fallback }
tryCatch(r, fallback) == IF r.kind = "throw" THEN Return(fallback) ELSE r

\* Math.round of a number given in tenths; Math.round(undefined) is NaN
mathRound(x) ==
    IF x.tag = "num" THEN Num((x.v + 5) \div 10) ELSE NaN

\* Math.round(speed * 3.6), speed in tenths
roundKmh(x) ==
    IF x.tag = "num" THEN Num((x.v * 36 + 50) \div 100) ELSE NaN

\* data.visibility ? data.visibility / 1000 : 0
visibilityKm(x) ==
    IF x.tag = "num" /\ x.v # 0 THEN [tag |-> "ratio", num |-> x.v, den |-> 1000]
    ELSE Num(0)

\* the object literal of getCurrentWeather / getWeatherByLocation; reading a
\* member of undefined throws a TypeError
weatherDataOf(data) ==
    IF \/ data.main = Undefined
       \/ data.weather = Undefined
       \/ data.weather.items = <<>>
       \/ data.wind = Undefined
       \/ data.sys = Undefined
    THEN Throw
    ELSE ReturnStored(
           [tag |-> "weatherData",
            temperature |-> mathRound(data.main.temp),
            description |-> data.weather.items[1].description,
            humidity |-> data.main.humidity,
            windSpeed |-> roundKmh(data.wind.speed),
            city |-> data.name,
            country |-> data.sys.country,
            icon |-> data.weather.items[1].icon,
            feelsLike |-> mathRound(data.main.feels_like),
            pressure |-> data.main.pressure,
            visibility |-> visibilityKm(data.visibility)])

\* what the code after `await fetch(...)` does with the response
currentWeatherBody(r) ==
    IF r.kind = "networkError" THEN Throw
    ELSE IF ~responseOk(r) THEN (IF r.status = 404 THEN Return(Null) ELSE Throw)
    ELSE IF r.body = BadJson THEN Throw
    ELSE weatherDataOf(r.body)

weatherByLocationBody(r) ==
    IF r.kind = "networkError" THEN Throw
    ELSE IF ~responseOk(r) THEN Throw
    ELSE IF r.body = BadJson THEN Throw
    ELSE weatherDataOf(r.body)

\* data.list || []
forecastBody(r) ==
    IF r.kind = "networkError" THEN Throw
    ELSE IF ~responseOk(r) THEN Throw
    ELSE IF r.body = BadJson THEN Throw
    ELSE ReturnStored(IF r.body.list = Undefined THEN EmptyList ELSE r.body.list)

\* Number.prototype.toFixed(2) of a coordinate given in thousandths of a
\* degree: the digits of the nearest hundredth
toFixed2(m) ==
    IF m >= 0 THEN ToString((m + 5) \div 10)
    ELSE "-" \o ToString(((0 - m) + 5) \div 10)

locationKey(coords) == <<toFixed2(coords.lat), ",", toFixed2(coords.lon)>>

forecastKey(city) == <<"forecast_">> \o city

\* JavaScript truthiness: null, undefined, "", 0 and NaN are falsy, objects
\* and arrays (the empty array too) are truthy
truthy(v) == v \notin {Null, Undefined, Str(""), Num(0), NaN}

----------------------------------------------------------------------------
(* WeatherService: a call runs to its await, and resumes on the response   *)

Event(id, ev, fn, via, arg, outcome, completion, result, stored, hadLive) ==
    [id |-> id, ev |-> ev, fn |-> fn, via |-> via, arg |-> arg, outcome |-> outcome,
     completion |-> completion, result |-> result, stored |-> stored,
     hadLive |-> hadLive]

\* the part of a cached call up to `await fetch`: cacheService.get, then
\* either the cached value is returned or the request goes out
startCall(fn, via, arg, identifier, type, c0, hadLive) ==
    LET cached == getResult(c0, type, identifier, now)
        c1 == getStore(c0, type, identifier, now)
        id == calls + 1
    IN  /\ calls < MaxCalls
        /\ calls' = id
        /\ Cardinality(pending) < MaxPending
        /\ cache' = c1
        /\ ret' = Op("get", type, identifier, cached)
        /\ IF truthy(cached)
           THEN /\ wev' = Event(id, "served", fn, via, arg, "cache", "return", cached,
                                FALSE, hadLive)
                /\ UNCHANGED <<pending, fetchCount>>
           ELSE /\ wev' = Event(id, "request", fn, via, arg, "none", "none", Null,
                                FALSE, hadLive)
                /\ fetchCount' = fetchCount + 1
                /\ pending' = pending \cup
                                  {[id |-> id, fn |-> fn, via |-> via, arg |-> arg,
                                    type |-> type, identifier |-> identifier]}
        /\ lastSet' = IF c0 = cache THEN lastSet
                      ELSE Forget(lastSet, generateKey(type, identifier))
        /\ UNCHANGED now

GetCurrentWeather(city) ==
    startCall("getCurrentWeather", "direct", city, city, "weather", cache, FALSE)

GetWeatherByLocation(coords) ==
    startCall("getWeatherByLocation", "direct", locationKey(coords), locationKey(coords),
              "weather", cache, FALSE)

GetWeatherForecast(city) ==
    startCall("getWeatherForecast", "direct", city, forecastKey(city), "weather",
              cache, FALSE)

\* cacheService.forceRefresh('weather', city); return await this.getCurrentWeather(city)
ForceRefreshWeather(city) ==
    startCall("getCurrentWeather", "forceRefreshWeather", city, city, "weather",
              remove(cache, "weather", city),
              getResult(cache, "weather", city, now) # Null)

weatherBody(fn, r) ==
    CASE fn = "getCurrentWeather" -> tryCatch(currentWeatherBody(r), Null)
      [] fn = "getWeatherByLocation" -> tryCatch(weatherByLocationBody(r), Null)
      [] fn = "getWeatherForecast" -> tryCatch(forecastBody(r), EmptyList)

\* the call resumes with the gateway's response r; body is what it does
finishCall(call, r, body) ==
    /\ cache' = IF body.store
                THEN set(cache, call.type, call.identifier, body.value, now)
                ELSE cache
    /\ lastSet' = IF body.store
                  THEN Remember(lastSet, cache, cache', call.type, call.identifier,
                                body.value, now)
                  ELSE lastSet
    /\ ret' = IF body.store THEN Op("set", call.type, call.identifier, Null) ELSE ret
    /\ pending' = pending \ {call}
    /\ wev' = Event(call.id, "done", call.fn, call.via, call.arg, r.name, body.kind,
                    body.value, body.store, FALSE)
    /\ UNCHANGED <<now, fetchCount, calls>>

WeatherFns == {"getCurrentWeather", "getWeatherByLocation", "getWeatherForecast"}

WeatherResponse(call, r) ==
    /\ call \in pending
    /\ call.fn \in WeatherFns
    /\ finishCall(call, r, weatherBody(call.fn, r))

Cities == {<<"N", "y">>, <<"n", "Y">>}
Coords == {[lat |-> 40713, lon |-> 0 - 74006]}
WeatherTickSteps == {weatherTTL, weatherTTL + 1}
MaxServiceOps == 5
ServiceStep == ops < MaxServiceOps /\ ops' = ops + 1 /\ UNCHANGED app

WeatherOutcomes ==
    {NetworkError,
     Http(404, BadJson, "http404"),
     Http(500, BadJson, "http500"),
     Http(200, BadJson, "badJson"),
     Http(200, GoodWeather, "good"),
     Http(200, PartialWeather, "partial"),
     Http(200, EmptyObject, "empty"),
     Http(200, GoodForecast, "goodForecast")}

WGetCurrentWeather == ServiceStep /\ \E city \in Cities : GetCurrentWeather(city)
WGetWeatherByLocation == ServiceStep /\ \E coords \in Coords : GetWeatherByLocation(coords)
WGetWeatherForecast == ServiceStep /\ \E city \in Cities : GetWeatherForecast(city)
WForceRefreshWeather == ServiceStep /\ \E city \in Cities : ForceRefreshWeather(city)
WResponse ==
    ServiceStep /\ \E call \in pending, r \in WeatherOutcomes : WeatherResponse(call, r)
WCacheForceRefresh ==
    /\ ServiceStep
    /\ \E city \in Cities : ForceRefresh("weather", city)
    /\ UNCHANGED svc
WCacheGet ==
    /\ ServiceStep
    /\ \E city \in Cities : Get("weather", city)
    /\ UNCHANGED svc
WTick ==
    /\ ServiceStep
    /\ \E d \in WeatherTickSteps : Tick(d)
    /\ UNCHANGED svc

NextWeather ==
    \/ WGetCurrentWeather
    \/ WGetWeatherByLocation
    \/ WGetWeatherForecast
    \/ WForceRefreshWeather
    \/ WResponse
    \/ WCacheForceRefresh
    \/ WCacheGet
    \/ WTick

SpecWeather == Init /\ [][NextWeather]_vars

----------------------------------------------------------------------------
(* NewsService                                                             *)

Removed == Str("[Removed]")

Article(url, title, description) ==
    [title |-> title, description |-> description, url |-> Str(url)]

\* the fixed articles of getMockNewsData
getMockNewsData ==
    Array(<<
        Article("https://example.com/ai-healthcare",
                Str("AI Technology Advances in Healthcare"),
                Str("New developments in artificial intelligence are revolutionizing medical diagnosis and treatment.")),
        Article("https://example.com/climate-summit",
                Str("Global Climate Summit Reaches New Agreement"),
                Str("World leaders have agreed on new measures to combat climate change.")),
        Article("https://example.com/spacex-launch",
                Str("SpaceX Launches New Satellite Constellation"),
                Str("SpaceX successfully launches another batch of Starlink satellites.")),
        Article("https://example.com/ev-battery",
                Str("New Electric Vehicle Battery Breakthrough"),
                Str("Scientists develop battery technology that charges in minutes.")),
        Article("https://example.com/ai-assistant",
                Str("Major Tech Company Announces New AI Assistant"),
                Str("Leading technology company unveils next-generation AI assistant."))
    >>)

\* article.title && article.title !== '[Removed]' &&
\* article.description && article.description !== '[Removed]'
headlineFilter(article) ==
    /\ truthy(article.title)
    /\ article.title # Removed
    /\ truthy(article.description)
    /\ article.description # Removed

\* article.title && article.title !== '[Removed]'
titleFilter(article) == truthy(article.title) /\ article.title # Removed

\* Array.prototype.slice(0, 10)
slice10(items) == SubSeq(items, 1, IF Len(items) < 10 THEN Len(items) ELSE 10)

\* data.articles || []
articlesOf(data) == IF truthy(data.articles) THEN data.articles.items ELSE <<>>

\* the code of a news function after `await fetch(...)`, up to its catch;
\* withDescription: the filter of getTopHeadlines, else the title-only filter
newsFetch(r, withDescription, stores) ==
    IF r.kind = "networkError" THEN Throw
    ELSE IF ~responseOk(r)
         THEN (IF r.status = 429 THEN Return(getMockNewsData) ELSE Throw)
    ELSE IF r.body = BadJson THEN Throw
    ELSE LET filteredArticles == Array(slice10(SelectSeq(articlesOf(r.body),
                                       LAMBDA a : IF withDescription THEN headlineFilter(a)
                                                  ELSE titleFilter(a))))
         IN  IF stores THEN ReturnStored(filteredArticles) ELSE Return(filteredArticles)

topHeadlinesBody(r) == tryCatch(newsFetch(r, TRUE, TRUE), getMockNewsData)
newsByCategoryBody(r) == tryCatch(newsFetch(r, FALSE, TRUE), getMockNewsData)
searchNewsBody(r) == tryCatch(newsFetch(r, FALSE, TRUE), getMockNewsData)
newsBySourceBody(r) == tryCatch(newsFetch(r, FALSE, FALSE), getMockNewsData)

headlinesKey(query, country) == <<"headlines_">> \o query \o <<"_">> \o country
categoryKey(category, country) == <<"category_">> \o category \o <<"_">> \o country
searchKey(query, language) == <<"search_">> \o query \o <<"_">> \o language

GetTopHeadlines(query, country) ==
    startCall("getTopHeadlines", "direct", query, headlinesKey(query, country), "news",
              cache, FALSE)

GetNewsByCategory(category, country) ==
    startCall("getNewsByCategory", "direct", category, categoryKey(category, country),
              "news", cache, FALSE)

SearchNews(query, language) ==
    startCall("searchNews", "direct", query, searchKey(query, language), "news",
              cache, FALSE)

\* getNewsBySource does not consult the cache: the request always goes out
GetNewsBySource(source) ==
    /\ calls < MaxCalls
    /\ Cardinality(pending) < MaxPending
    /\ calls' = calls + 1
    /\ wev' = Event(calls + 1, "request", "getNewsBySource", "direct", source, "none",
                    "none", Null, FALSE, FALSE)
    /\ fetchCount' = fetchCount + 1
    /\ pending' = pending \cup
                      {[id |-> calls + 1, fn |-> "getNewsBySource", via |-> "direct",
                        arg |-> source, type |-> "news", identifier |-> source]}
    /\ UNCHANGED <<cache, now, ret, lastSet>>

NewsFns == {"getTopHeadlines", "getNewsByCategory", "searchNews", "getNewsBySource"}

newsBody(fn, r) ==
    CASE fn = "getTopHeadlines" -> topHeadlinesBody(r)
      [] fn = "getNewsByCategory" -> newsByCategoryBody(r)
      [] fn = "searchNews" -> searchNewsBody(r)
      [] fn = "getNewsBySource" -> newsBySourceBody(r)

NewsResponse(call, r) ==
    /\ call \in pending
    /\ call.fn \in NewsFns
    /\ finishCall(call, r, newsBody(call.fn, r))

MaxArticles == 12

\* a payload with more than ten articles, the third of them removed
LongArticles ==
    [i \in 1..MaxArticles |->
        Article(ToString(i), IF i = 3 THEN Removed ELSE Str("Title"), Str("Text"))]

MixedArticles ==
    <<Article("1", Str("Title"), Str("Text")),
      Article("2", Removed, Str("Text")),
      Article("3", Str("Title"), Removed),
      Article("4", Str("Title"), Str("")),
      Article("5", Str(""), Str("Text")),
      Article("6", Str("Title"), Null)>>

CleanArticles ==
    <<Article("1", Str("Title"), Str("Text")),
      Article("2", Removed, Str("Text")),
      Article("3", Str("Other"), Str("Text"))>>

NewsPayload(articles) == [EmptyObject EXCEPT !.articles = Array(articles)]

NewsOutcomes ==
    {NetworkError,
     Http(429, BadJson, "http429"),
     Http(500, BadJson, "http500"),
     Http(200, BadJson, "badJson"),
     Http(200, EmptyObject, "empty"),
     Http(200, NewsPayload(LongArticles), "long"),
     Http(200, NewsPayload(MixedArticles), "mixed"),
     Http(200, NewsPayload(CleanArticles), "clean")}

Queries == {<<"A", "i">>}
Countries == {<<"u", "s">>}
Categories == {<<"s", "p", "o", "r", "t", "s">>}
Languages == {<<"e", "n">>}
Sources == {<<"b", "b", "c">>}
NewsTickSteps == {newsTTL, newsTTL + 1}

NGetTopHeadlines ==
    ServiceStep /\ \E q \in Queries, c \in Countries : GetTopHeadlines(q, c)
NGetNewsByCategory ==
    ServiceStep /\ \E g \in Categories, c \in Countries : GetNewsByCategory(g, c)
NSearchNews ==
    ServiceStep /\ \E q \in Queries, l \in Languages : SearchNews(q, l)
NGetNewsBySource == ServiceStep /\ \E src \in Sources : GetNewsBySource(src)
NResponse ==
    ServiceStep /\ \E call \in pending, r \in NewsOutcomes : NewsResponse(call, r)
NTick ==
    /\ ServiceStep
    /\ \E d \in NewsTickSteps : Tick(d)
    /\ UNCHANGED svc

NextNews ==
    \/ NGetTopHeadlines
    \/ NGetNewsByCategory
    \/ NSearchNews
    \/ NGetNewsBySource
    \/ NResponse
    \/ NTick

SpecNews == Init /\ [][NextNews]_vars

----------------------------------------------------------------------------
(* VoiceAssistant.parseVoiceCommand.  Transcripts are strings; instants    *)
(* are ms since the epoch (a Thursday, 00:00), calendar fields are taken   *)
(* in UTC.  Confidence is kept in tenths: 5 is 0.5.                        *)

HourMs == 60 * Minute
DayMs == 24 * HourMs

\* String.prototype.includes
includes(s, k) ==
    \E i \in 1..(Len(s) - Len(k) + 1) : SubSeq(s, i, i + Len(k) - 1) = k

charAt(s, i) == IF i >= 1 /\ i <= Len(s) THEN SubSeq(s, i, i) ELSE ""

\* does the literal k stand at position i of s
startsAt(s, i, k) == i >= 1 /\ i + Len(k) - 1 <= Len(s) /\ SubSeq(s, i, i + Len(k) - 1) = k

Digits == {"0", "1", "2", "3", "4", "5", "6", "7", "8", "9"}
isDigit(ch) == ch \in Digits

digitValue(ch) ==
    CASE ch = "0" -> 0 [] ch = "1" -> 1 [] ch = "2" -> 2 [] ch = "3" -> 3
      [] ch = "4" -> 4 [] ch = "5" -> 5 [] ch = "6" -> 6 [] ch = "7" -> 7
      [] ch = "8" -> 8 [] ch = "9" -> 9

\* parseInt of a string of one or two digits
parseInt(d) ==
    IF Len(d) = 1 THEN digitValue(d)
    ELSE 10 * digitValue(SubSeq(d, 1, 1)) + digitValue(SubSeq(d, 2, 2))

\* the first index >= i of s that holds no blank (Len(s) + 1 if none)
skipBlanks(s, i) ==
    LET rest == {j \in i..Len(s) : charAt(s, j) # " "}
    IN  IF rest = {} THEN Len(s) + 1 ELSE MinOf(rest)

\* the action branch of parseVoiceCommand: [action, bonus]
parseAction(t) ==
    IF includes(t, "create") \/ includes(t, "add") \/ includes(t, "set")
           \/ includes(t, "make")
    THEN [action |-> "create", bonus |-> 2]
    ELSE IF includes(t, "get") \/ includes(t, "show") \/ includes(t, "find")
           \/ includes(t, "list")
    THEN [action |-> "get", bonus |-> 2]
    ELSE IF includes(t, "update") \/ includes(t, "change") \/ includes(t, "modify")
    THEN [action |-> "update", bonus |-> 2]
    ELSE IF includes(t, "delete") \/ includes(t, "remove") \/ includes(t, "cancel")
    THEN [action |-> "delete", bonus |-> 2]
    ELSE [action |-> "create", bonus |-> 0]

\* the type branch of parseVoiceCommand: [type, bonus]
parseType(t) ==
    IF includes(t, "reminder") \/ includes(t, "remind")
    THEN [type |-> "reminder", bonus |-> 3]
    ELSE IF includes(t, "meeting") \/ includes(t, "appointment")
    THEN [type |-> "meeting", bonus |-> 3]
    ELSE IF includes(t, "task") \/ includes(t, "todo")
    THEN [type |-> "task", bonus |-> 3]
    ELSE IF includes(t, "note") \/ includes(t, "memo")
    THEN [type |-> "note", bonus |-> 3]
    ELSE [type |-> "unknown", bonus |-> 0]

\* String.prototype.trim of a captured group that is one character long
trim1(ch) == IF ch = " " THEN "" ELSE ch

\* the attempt of the title pattern
\*   /(?:for|about|regarding)\s+(.+?)(?:\s+(?:on|at|for|tomorrow|today|next|this))?/i
\* at position i: the lazy group (.+?) takes one character and the rest of
\* the pattern, being optional, lets the match end there
titleAt(t, i) ==
    LET kw == IF startsAt(t, i, "for") THEN "for"
              ELSE IF startsAt(t, i, "about") THEN "about"
              ELSE IF startsAt(t, i, "regarding") THEN "regarding"
              ELSE ""
        j == i + Len(kw)
        e == skipBlanks(t, j)
    IN  IF kw = "" \/ e = j THEN Undefined
        ELSE IF e <= Len(t) THEN Str(trim1(charAt(t, e)))
        ELSE IF e - j >= 2 THEN Str(trim1(" "))
        ELSE Undefined

\* transcript.match(title pattern)[1].trim(), Undefined without a match
titleMatch(t) ==
    LET starts == {i \in 1..Len(t) : titleAt(t, i) # Undefined}
    IN  IF starts = {} THEN Undefined ELSE titleAt(t, MinOf(starts))

\* the pattern /(\d{1,2})(?::(\d{2}))?\s*(am|pm)?/i applied at the digit at
\* position i: [hour, minute, period]
clockAt(t, i) ==
    LET two == isDigit(charAt(t, i + 1))
        a == IF two THEN i + 2 ELSE i + 1
        hasMinute == /\ charAt(t, a) = ":"
                     /\ isDigit(charAt(t, a + 1))
                     /\ isDigit(charAt(t, a + 2))
        b == skipBlanks(t, IF hasMinute THEN a + 3 ELSE a)
    IN  [tag |-> "match",
         hour |-> parseInt(SubSeq(t, i, a - 1)),
         minute |-> IF hasMinute THEN parseInt(SubSeq(t, a + 1, a + 2)) ELSE 0,
         period |-> IF startsAt(t, b, "am") THEN "am"
                    ELSE IF startsAt(t, b, "pm") THEN "pm" ELSE "none"]

\* transcript.match(...): the match starts at the first digit of the
\* transcript; Undefined without a digit
timeMatch(t) ==
    LET digits == {k \in 1..Len(t) : isDigit(charAt(t, k))}
    IN  IF digits = {} THEN Undefined ELSE clockAt(t, MinOf(digits))

adjustedHour(hour, period) ==
    IF period = "pm" /\ hour # 12 THEN hour + 12
    ELSE IF period = "am" /\ hour = 12 THEN 0
    ELSE hour

\* a Date object; it is truthy whatever its instant
DateOf(ms) == [tag |-> "date", ms |-> ms]

\* Date.prototype.setHours(h, m, 0, 0)
setHours(date, h, m) == (date \div DayMs) * DayMs + h * HourMs + m * Minute

\* Date.prototype.getDay: 0 is Sunday; the epoch is a Thursday
getDay(date) == (4 + date \div DayMs) % 7

\* Date.prototype.setDate(getDate() + n)
addDays(date, n) == date + n * DayMs

days == <<"sunday", "monday", "tuesday", "wednesday", "thursday", "friday", "saturday">>

daysToAdd(targetDay, currentDay) == (targetDay - currentDay + 7) % 7

\* the weekday loop of extractDateTime
weekdayDate(t, date) ==
    LET named == {k \in 1..7 : includes(t, days[k])}
    IN  IF named = {} THEN Null
        ELSE DateOf(addDays(date, daysToAdd(MinOf(named) - 1, getDay(date))))

\* variant: the clock time is looked for before the relative days
extractDateTime_TimeFirst(t, date) ==
    IF timeMatch(t) # Undefined
    THEN DateOf(setHours(date, adjustedHour(timeMatch(t).hour, timeMatch(t).period),
                      timeMatch(t).minute))
    ELSE IF includes(t, "today") THEN DateOf(date)
    ELSE IF includes(t, "tomorrow") THEN DateOf(addDays(date, 1))
    ELSE IF includes(t, "next week") THEN DateOf(addDays(date, 7))
    ELSE weekdayDate(t, date)

\* extractDateTime: a Date or null
extractDateTime(t, date) ==
    IF includes(t, "today") THEN DateOf(date)
    ELSE IF includes(t, "tomorrow") THEN DateOf(addDays(date, 1))
    ELSE IF includes(t, "next week") THEN DateOf(addDays(date, 7))
    ELSE IF timeMatch(t) # Undefined
    THEN DateOf(setHours(date, adjustedHour(timeMatch(t).hour, timeMatch(t).period),
                      timeMatch(t).minute))
    ELSE weekdayDate(t, date)

\* the priority branch of parseVoiceCommand: [priority, bonus]
parsePriority(t) ==
    IF includes(t, "urgent") \/ includes(t, "important") \/ includes(t, "high priority")
    THEN [priority |-> "high", bonus |-> 1]
    ELSE IF includes(t, "low priority") \/ includes(t, "not urgent")
    THEN [priority |-> "low", bonus |-> 1]
    ELSE [priority |-> "medium", bonus |-> 0]

parseVoiceCommand(t, date) ==
    LET a == parseAction(t)
        ty == parseType(t)
        title == titleMatch(t)
        dateTime == extractDateTime(t, date)
        pr == parsePriority(t)
    IN  [type |-> ty.type,
         action |-> a.action,
         title |-> title,
         dueDate |-> IF truthy(dateTime) THEN dateTime ELSE Undefined,
         priority |-> pr.priority,
         confidence |-> 5 + a.bonus + ty.bonus
                          + (IF title # Undefined THEN 2 ELSE 0)
                          + (IF truthy(dateTime) THEN 2 ELSE 0)
                          + pr.bonus]

\* the words of an utterance, joined by single blanks
Join(a, b) == IF a = "" THEN b ELSE IF b = "" THEN a ELSE a \o " " \o b

Verbs ==
    {"create", "add", "set", "make", "new",
     "get", "show", "find", "list", "what",
     "update", "change", "modify", "edit",
     "delete", "remove", "cancel", "clear"}

Nouns == {"reminder", "meeting", "task", "note"}

DateTails ==
    {"today", "tomorrow", "next week",
     "at 3 pm", "at 10:30 am", "at 12 am", "at 12 pm", "at 11 pm", "at 9",
     "on monday", "on thursday", "on sunday",
     "today at 3 pm", "tomorrow at 2 pm", "next week on friday",
     "at 5 pm on friday", "in 2 days at 3 pm", "at 25 pm",
     "urgent about demo", "low priority", "critical", "important", "not urgent",
     "regarding budget next week at 9 am urgent"}

Utterances ==
    {Join(v, Join(n, t)) : v \in Verbs \cup {""}, n \in Nouns \cup {""},
                           t \in {"", "for team meeting tomorrow"}}
        \cup {Join(v, Join("reminder", t)) : v \in {"create", ""}, t \in DateTails}

MaxDays == 7

\* a time of day with hours, minutes, seconds and milliseconds
OddTime == 9 * HourMs + 17 * Minute + 5003

\* everything but the clock and the assistant
backend == <<cache, ret, lastSet, ops, pending, wev, fetchCount, calls>>

\* the instants at which an utterance is heard
VoiceNows == {d * DayMs + o : d \in 0..MaxDays, o \in {0, OddTime}}

\* an utterance has been recognised and is about to be parsed
InitVoice ==
    /\ InitBackend
    /\ InitDevice
    /\ firestoreUp = TRUE
    /\ notifeeUp = TRUE
    /\ now \in VoiceNows
    /\ transcript \in Utterances
    /\ command = NoCommand

VParse ==
    /\ command = NoCommand
    /\ command' = parseVoiceCommand(transcript, now)
    /\ UNCHANGED <<transcript, now, backend, device, others>>

NextVoice == VParse

SpecVoice == InitVoice /\ [][NextVoice]_vars

----------------------------------------------------------------------------
(* Persistence: firestore.service.ts                                       *)

\* the id of the n-th document added to the database
DocId(n) == [tag |-> "id", n |-> n]

\* an awaited call that rejects
Rejected(message, db) == [kind |-> "throw", value |-> Str(message), db |-> db]

\* db.collection(name).add(data): the reference of the new document, or a
\* rejection while the database cannot be reached
add(db, collection, data, up) ==
    IF up
    THEN [kind |-> "return", value |-> DocId(Len(db) + 1),
          db |-> Append(db, [collection |-> collection, id |-> DocId(Len(db) + 1),
                             data |-> data])]
    ELSE Rejected("unavailable", db)

\* firestoreService.createReminder: no try / catch, a rejection propagates
createReminder(db, reminderData, up) == add(db, "reminders", reminderData, up)

\* firestoreService.createVoiceNote
createVoiceNote(db, voiceNoteData, up) == add(db, "voiceNotes", voiceNoteData, up)

\* the documents of list, the earliest due date first (Array.prototype.sort
\* is stable)
RECURSIVE sortByDueDate(_)
sortByDueDate(list) ==
    IF list = <<>> THEN <<>>
    ELSE LET first == MinOf({list[i].data.dueDate.ms : i \in 1..Len(list)})
         IN  SelectSeq(list, LAMBDA d : d.data.dueDate.ms = first)
                 \o sortByDueDate(SelectSeq(list, LAMBDA d : d.data.dueDate.ms # first))

\* firestoreService.getReminders: the user's reminders, [] on any failure
getReminders(db, userId, up) ==
    IF up
    THEN sortByDueDate(SelectSeq(db, LAMBDA d : d.collection = "reminders"
                                                  /\ d.data.userId = userId))
    ELSE <<>>

\* firestoreService.getVoiceNotes
getVoiceNotes(db, userId, up) ==
    IF up
    THEN SelectSeq(db, LAMBDA d : d.collection = "voiceNotes" /\ d.data.userId = userId)
    ELSE <<>>

----------------------------------------------------------------------------
(* Local notifications: notifications.ts                                   *)

\* the template `${input.id}_alert_${minutesBefore}`
AlertId(id, minutesBefore) == [tag |-> "alert", id |-> id, minutes |-> minutesBefore]

\* the template `reminder_${Date.now()}`
StampId(date) == [tag |-> "stamp", at |-> date]

\* the template `reminder_${reminderId}`
ReminderId(reminderId) == [tag |-> "reminder", of |-> reminderId]

\* a || b
orElse(a, b) == IF truthy(a) THEN a ELSE b

\* notifee.createTriggerNotification: the platform keeps one trigger per
\* notification id; it rejects while the permission is missing
createTriggerNotification(platform, id, timestamp, up) ==
    IF up
    THEN [kind |-> "return", value |-> id,
          platform |-> {n \in platform : n.id # id}
                           \cup {[id |-> id, timestamp |-> timestamp]}]
    ELSE [kind |-> "throw", value |-> Undefined, platform |-> platform]

\* scheduleNotification: the notification id, or undefined
scheduleNotification(platform, input, date, up) ==
    IF input.timestampMs <= date
    THEN [value |-> Undefined, platform |-> platform]
    ELSE LET r == createTriggerNotification(platform, orElse(input.id, StampId(date)),
                                            input.timestampMs, up)
         IN  IF r.kind = "throw" THEN [value |-> Undefined, platform |-> platform]
             ELSE [value |-> r.value, platform |-> r.platform]

\* notifee.cancelNotification behind cancelNotification's guard and try / catch
cancelNotification(platform, notificationId, up) ==
    IF ~truthy(notificationId) \/ ~up THEN platform
    ELSE {n \in platform : n.id # notificationId}

\* variant: the offset is taken in seconds
alertTime_Seconds(input, minutesBefore) == input.timestampMs - minutesBefore * 1000

alertTime(input, minutesBefore) == input.timestampMs - minutesBefore * 60 * 1000

\* the loop of scheduleReminderWithAlerts over the offsets still to do
RECURSIVE alertLoop(_, _, _, _, _, _)
alertLoop(platform, notificationIds, input, alertTimes, date, up) ==
    IF alertTimes = <<>> THEN [value |-> notificationIds, platform |-> platform]
    ELSE LET minutesBefore == Head(alertTimes)
         IN  IF alertTime(input, minutesBefore) > date
             THEN LET r == scheduleNotification(platform,
                               [id |-> AlertId(input.id, minutesBefore),
                                timestampMs |-> alertTime(input, minutesBefore)],
                               date, up)
                  IN  alertLoop(r.platform,
                                IF truthy(r.value) THEN Append(notificationIds, r.value)
                                ELSE notificationIds,
                                input, Tail(alertTimes), date, up)
             ELSE alertLoop(platform, notificationIds, input, Tail(alertTimes), date, up)

DefaultAlertMinutes == Array(<<15, 5, 0>>)

\* scheduleReminderWithAlerts: the ids of the notifications scheduled
scheduleReminderWithAlerts(platform, input, date, up) ==
    alertLoop(platform, <<>>, input, orElse(input.alertMinutes, DefaultAlertMinutes).items,
              date, up)

----------------------------------------------------------------------------
(* The command dispatcher of the voice assistant                           *)

VoiceResponse(success, error, data) ==
    [success |-> success, error |-> error, data |-> data]

Handled(response, db) == [kind |-> "return", value |-> response, db |-> db]

Unsupported(db) == Handled(VoiceResponse(FALSE, Str("Unsupported action"), Undefined), db)

\* the result of a handler whose create call gave r
created(r, key) ==
    IF r.kind = "throw" THEN r
    ELSE Handled(VoiceResponse(TRUE, Undefined, [key |-> key, value |-> r.value]), r.db)

\* the result of a handler's get branch
listed(list, key, db) ==
    Handled(VoiceResponse(TRUE, Undefined, [key |-> key, value |-> Array(list)]), db)

handleReminderCommand(c, uid, db, date, up) ==
    IF c.action = "create"
    THEN created(createReminder(db, [userId |-> uid,
                     title |-> orElse(c.title, Str("Voice Reminder")),
                     dueDate |-> orElse(c.dueDate, DateOf(date + 24 * 60 * 60 * 1000))],
                     up), "reminderId")
    ELSE IF c.action = "get" THEN listed(getReminders(db, uid, up), "reminders", db)
    ELSE Unsupported(db)

handleMeetingCommand(c, uid, db, date, up) ==
    IF c.action = "create"
    THEN created(createReminder(db, [userId |-> uid,
                     title |-> orElse(c.title, Str("Voice Meeting")),
                     dueDate |-> orElse(c.dueDate, DateOf(date + 60 * 60 * 1000))],
                     up), "meetingId")
    ELSE IF c.action = "get"
    THEN listed(SelectSeq(getReminders(db, uid, up), LAMBDA m : m.data.dueDate.ms > date),
                "meetings", db)
    ELSE Unsupported(db)

handleTaskCommand(c, uid, db, date, up) ==
    IF c.action = "create"
    THEN created(createReminder(db, [userId |-> uid,
                     title |-> orElse(c.title, Str("Voice Task")),
                     dueDate |-> orElse(c.dueDate, DateOf(date + 24 * 60 * 60 * 1000))],
                     up), "taskId")
    ELSE IF c.action = "get" THEN listed(getReminders(db, uid, up), "tasks", db)
    ELSE Unsupported(db)

\* the commands of the parser carry no description, so the argument of
\* createVoiceNote reads the identifier `transcript`, which no scope of the
\* module declares: a ReferenceError before the call is made
handleNoteCommand(c, uid, db, date, up) ==
    IF c.action = "create" THEN Rejected("transcript is not defined", db)
    ELSE IF c.action = "get" THEN listed(getVoiceNotes(db, uid, up), "notes", db)
    ELSE Unsupported(db)

executeCommand(c, uid, db, date, up) ==
    IF ~truthy(uid)
    THEN Handled(VoiceResponse(FALSE, Str("No user ID"), Undefined), db)
    ELSE LET r == CASE c.type = "reminder" -> handleReminderCommand(c, uid, db, date, up)
                    [] c.type = "meeting" -> handleMeetingCommand(c, uid, db, date, up)
                    [] c.type = "task" -> handleTaskCommand(c, uid, db, date, up)
                    [] c.type = "note" -> handleNoteCommand(c, uid, db, date, up)
                    [] OTHER -> Handled(VoiceResponse(FALSE, Str("Unknown command type"),
                                                      Undefined), db)
         IN  IF r.kind = "throw"
             THEN Handled(VoiceResponse(FALSE, r.value, Undefined), r.db)
             ELSE r

\* an entry of the App's reminder list
Reminder(id, title) == [id |-> id, title |-> title]

\* App.handleVoiceResponse: a successful response with reminders replaces
\* the list
handleVoiceResponse(list, response) ==
    IF response.success /\ response.data # Undefined /\ response.data.key = "reminders"
    THEN [i \in 1..Len(response.data.value.items) |->
              Reminder(response.data.value.items[i].id,
                       response.data.value.items[i].data.title)]
    ELSE list

\* String.prototype.toLowerCase of a transcript
RECURSIVE lowerCase(_)
lowerCase(s) ==
    IF s = "" THEN ""
    ELSE toLowerChar(SubSeq(s, 1, 1)) \o lowerCase(SubSeq(s, 2, Len(s)))

----------------------------------------------------------------------------
(* The reminder form of the App                                            *)

\* String.prototype.trim
trim(s) ==
    LET solid == {j \in 1..Len(s) : charAt(s, j) # " "}
    IN  IF solid = {} THEN ""
        ELSE SubSeq(s, MinOf(solid), CHOOSE j \in solid : \A k \in solid : k <= j)

\* the due date of the form: the date and time fields when both are
\* filled in, else one hour from now
formDueDate(form, date) ==
    IF truthy(form.date) /\ truthy(form.time)
    THEN setHours(form.date.day * DayMs, form.time.hours, form.time.minutes)
    ELSE date + HourMs

\* variant: the new reminder is not added to the list
setReminders_Dropped(prev, newReminder) == prev

\* setReminders(prev => [...prev, newReminder])
setReminders(prev, newReminder) == Append(prev, newReminder)

\* App.createReminder: the state it leaves and the message it shows
App_createReminder(db, list, platform, uid, form, date, dbUp, platformUp) ==
    LET unchanged(shown) ==
            [db |-> db, list |-> list, platform |-> platform, shown |-> shown]
    IN  IF trim(form.title) = "" THEN unchanged("enter a title")
        ELSE IF ~truthy(uid) THEN unchanged("log in")
        ELSE LET dueDate == formDueDate(form, date)
                 r == createReminder(db, [userId |-> uid, title |-> Str(form.title),
                                          dueDate |-> DateOf(dueDate)], dbUp)
             IN  IF r.kind = "throw" THEN unchanged("failed")
                 ELSE LET s == scheduleReminderWithAlerts(platform,
                                   [id |-> ReminderId(r.value), timestampMs |-> dueDate,
                                    alertMinutes |-> Array(<<2>>)], date, platformUp)
                      IN  [db |-> r.db,
                           list |-> setReminders(list, Reminder(r.value, Str(form.title))),
                           platform |-> s.platform,
                           shown |-> IF Len(s.value) > 0 THEN "saved"
                                     ELSE "saved, scheduling failed"]

----------------------------------------------------------------------------
(* The handlers of the device as actions                                   *)

MaxHandlers == 2
MaxTicks == 2

\* what the recogniser hands to onSpeechResults
SpokenResults ==
    {"Create reminder for team meeting tomorrow", "create reminder at 0:02", "add meeting",
     "make task today", "create note", "show reminder", "get note", "list meeting",
     "delete reminder", "hello"}

\* the date and time fields of the reminder form
FormDate(day) == [tag |-> "formdate", day |-> day]
FormTime(hours, minutes) == [tag |-> "formtime", hours |-> hours, minutes |-> minutes]
FormMinutes == 0..5
Forms ==
    {[title |-> t, date |-> Str(""), time |-> Str("")] : t \in {"", " ", "standup"}}
        \cup {[title |-> "standup", date |-> FormDate(0), time |-> FormTime(0, m)] :
                  m \in FormMinutes}

\* the inputs of the scheduler
ScheduleMinutes == {0, 2, 3, 5, 6, 15}
AlertMinutes ==
    {Undefined, Array(<<2>>), Array(<<0, 5, 15>>), Array(<<5, 5>>), Array(<<>>)}
AlertInputs ==
    {[id |-> Str("r1"), timestampMs |-> k * Minute, alertMinutes |-> a] :
         k \in ScheduleMinutes, a \in AlertMinutes}
NotificationInputs ==
    {[id |-> i, timestampMs |-> k * Minute] :
         i \in {Undefined, Str("test_notification")}, k \in 0..2}

\* the handler fn ran on input and gave result
Ran(fn, input, result) ==
    /\ dev.n < MaxHandlers
    /\ dev' = [n |-> dev.n + 1, fn |-> fn, input |-> input, result |-> result]

\* VoiceAssistant.init('user123')
DInit ==
    /\ currentUserId = Null
    /\ currentUserId' = Str("user123")
    /\ UNCHANGED <<now, backend, others, transcript, command, appUserId, store, reminders,
                   scheduled, firestoreUp, notifeeUp, dev>>

\* the user logs in
DLogin ==
    /\ appUserId = Null
    /\ appUserId' = Str("u1")
    /\ UNCHANGED <<now, backend, others, transcript, command, currentUserId, store, reminders,
                   scheduled, firestoreUp, notifeeUp, dev>>

\* onSpeechResults: parse, execute, hand the response to the App
DSpeech(results0) ==
    LET t == lowerCase(results0)
        c == parseVoiceCommand(t, now)
        r == executeCommand(c, currentUserId, store, now, firestoreUp)
    IN  /\ Ran("onSpeechResults", Str(results0),
               [completion |-> r.kind, response |-> r.value])
        /\ transcript' = t
        /\ command' = c
        /\ store' = r.db
        /\ reminders' = handleVoiceResponse(reminders, r.value)
        /\ UNCHANGED <<now, backend, others, currentUserId, appUserId, scheduled, firestoreUp,
                       notifeeUp>>

\* the reminder form is submitted
DCreateReminder(form) ==
    LET r == App_createReminder(store, reminders, scheduled, appUserId, form, now,
                                firestoreUp, notifeeUp)
    IN  /\ Ran("createReminder", form, Str(r.shown))
        /\ store' = r.db
        /\ reminders' = r.list
        /\ scheduled' = r.platform
        /\ UNCHANGED <<now, backend, others, transcript, command, currentUserId, appUserId,
                       firestoreUp, notifeeUp>>

DScheduleReminderWithAlerts(input) ==
    LET r == scheduleReminderWithAlerts(scheduled, input, now, notifeeUp)
    IN  /\ Ran("scheduleReminderWithAlerts", input, Array(r.value))
        /\ scheduled' = r.platform
        /\ UNCHANGED <<now, backend, others, transcript, command, currentUserId, appUserId,
                       store, reminders, firestoreUp, notifeeUp>>

DScheduleNotification(input) ==
    LET r == scheduleNotification(scheduled, input, now, notifeeUp)
    IN  /\ Ran("scheduleNotification", input, r.value)
        /\ scheduled' = r.platform
        /\ UNCHANGED <<now, backend, others, transcript, command, currentUserId, appUserId,
                       store, reminders, firestoreUp, notifeeUp>>

DCancelNotification(notificationId) ==
    /\ Ran("cancelNotification", notificationId, Undefined)
    /\ scheduled' = cancelNotification(scheduled, notificationId, notifeeUp)
    /\ UNCHANGED <<now, backend, others, transcript, command, currentUserId, appUserId,
                   store, reminders, firestoreUp, notifeeUp>>

\* a minute passes
DTick ==
    /\ now < MaxTicks * Minute
    /\ now' = now + Minute
    /\ UNCHANGED <<backend, app>>

\* the App has started; the database and the notification permission are
\* available or not
InitAssistant ==
    /\ InitBackend
    /\ InitDevice
    /\ now = 0
    /\ transcript = ""
    /\ command = NoCommand
    /\ firestoreUp \in BOOLEAN
    /\ notifeeUp \in BOOLEAN

NextAssistant ==
    \/ DInit
    \/ DLogin
    \/ \E results0 \in SpokenResults : DSpeech(results0)
    \/ \E form \in Forms : DCreateReminder(form)
    \/ DTick

SpecAssistant == InitAssistant /\ [][NextAssistant]_vars

\* the reminder form and the scheduler, without the voice assistant
NextReminders ==
    \/ DLogin
    \/ \E form \in Forms : DCreateReminder(form)
    \/ \E input \in AlertInputs : DScheduleReminderWithAlerts(input)
    \/ \E input \in NotificationInputs : DScheduleNotification(input)
    \/ \E n \in scheduled : DCancelNotification(n.id)
    \/ DTick

SpecReminders == InitAssistant /\ [][NextReminders]_vars

----------------------------------------------------------------------------
(* The actions of a displayed notification                                 *)

\* the template `${data.reminderId}_snoozed`
SnoozedId(reminderId) == [tag |-> "snoozed", of |-> reminderId]

\* the data scheduleNotification attaches: reminderId is input.id || 'unknown'
dataOf(n) == [reminderId |-> IF n.id.tag = "stamp" THEN Str("unknown") ELSE n.id]

\* variant: the delay is taken in seconds
snoozeTime_Seconds(date) == date + 10 * 1000

\* Date.now() + (10 * 60 * 1000)
snoozeTime(date) == date + 10 * 60 * 1000

\* handleNotificationAction: what the platform holds afterwards; the
\* notifications it displays at once schedule nothing
handleNotificationAction(platform, notificationId, actionId, data, date, up) ==
    IF actionId = "mark_complete" THEN cancelNotification(platform, notificationId, up)
    ELSE IF actionId = "snooze_10"
    THEN LET cancelled == cancelNotification(platform, notificationId, up)
         IN  IF data # Undefined /\ truthy(data.reminderId)
             THEN scheduleNotification(cancelled,
                                       [id |-> SnoozedId(data.reminderId),
                                        timestampMs |-> snoozeTime(date)],
                                       date, up).platform
             ELSE cancelled
    ELSE platform

ActionIds == {"default", "mark_complete", "snooze_10", "dismiss"}

\* requests whose alerts fall within the minutes that pass
SnoozeInputs ==
    {[id |-> Str("r1"), timestampMs |-> k * Minute, alertMinutes |-> a] :
         k \in {2, 6}, a \in {Undefined, Array(<<0, 5>>)}}

\* the user presses an action of a notification that has been displayed;
\* it carries the data of scheduleNotification or, coming from elsewhere, none
DNotificationAction(n, actionId, data) ==
    /\ n \in scheduled
    /\ n.timestamp <= now
    /\ Ran("handleNotificationAction",
           [notificationId |-> n.id, actionId |-> actionId, data |-> data], Undefined)
    /\ scheduled' = handleNotificationAction(scheduled, n.id, actionId, data, now, notifeeUp)
    /\ UNCHANGED <<now, backend, others, transcript, command, currentUserId, appUserId,
                   store, reminders, firestoreUp, notifeeUp>>

NextSnooze ==
    \/ \E input \in SnoozeInputs : DScheduleReminderWithAlerts(input)
    \/ \E input \in NotificationInputs : DScheduleNotification(input)
    \/ \E n \in scheduled, actionId \in ActionIds :
           \E data \in {Undefined, dataOf(n)} : DNotificationAction(n, actionId, data)
    \/ DTick

SpecSnooze == InitAssistant /\ [][NextSnooze]_vars

----------------------------------------------------------------------------
(* Listening sessions: VoiceAssistant and the App's voice button           *)

MaxSessions == 2
MaxFinals == 2

\* what the recogniser hands to onSpeechResults during a session
SessionResults == {"create reminder", "hello"}

\* VoiceAssistant.startListening; ok: Voice.start resolves
startListening(listening, processing, eng, ok) ==
    IF listening \/ processing
    THEN [result |-> FALSE, isListening |-> listening, engine |-> eng, called |-> FALSE]
    ELSE IF ok
    THEN [result |-> TRUE, isListening |-> TRUE, engine |-> "recording", called |-> TRUE]
    ELSE [result |-> FALSE, isListening |-> FALSE, engine |-> eng, called |-> TRUE]

\* VoiceAssistant.stopListening; ok: Voice.stop resolves
stopListening(listening, eng, ok) ==
    IF ~listening THEN [isListening |-> listening, engine |-> eng]
    ELSE [isListening |-> FALSE,
          engine |-> IF ok /\ eng = "recording" THEN "ended" ELSE eng]

\* App.startVoiceListening, reached from handleVoicePress while the App is
\* not listening; with isProcessing set it returns at once
UStart(ok) ==
    /\ ~uiListening
    /\ ~uiProcessing
    /\ sessions < MaxSessions
    /\ sessions' = sessions + 1
    /\ LET r == startListening(vaListening, vaProcessing, engine, ok)
       IN  /\ vaListening' = r.isListening
           /\ engine' = r.engine
           /\ started' = [n |-> started.n + 1, result |-> r.result, engine |-> r.called]
           /\ uiListening' = r.result
           /\ uiProcessing' = r.result
    /\ UNCHANGED <<now, backend, beyond, transcript, command, device, vaProcessing, finals,
                   handling, delivered>>

\* App.stopVoiceListening, reached from handleVoicePress while the App is
\* listening
UStop(ok) ==
    /\ uiListening
    /\ LET r == stopListening(vaListening, engine, ok)
       IN  /\ vaListening' = r.isListening
           /\ engine' = r.engine
    /\ uiListening' = FALSE
    /\ UNCHANGED <<now, backend, beyond, transcript, command, device, vaProcessing, finals,
                   handling, delivered, uiProcessing, sessions, started>>

\* onSpeechEnd, a listener that init registers
SSpeechEnd ==
    /\ currentUserId # Null
    /\ engine = "recording"
    /\ engine' = "ended"
    /\ vaListening' = FALSE
    /\ UNCHANGED <<now, backend, beyond, transcript, command, device, vaProcessing, finals,
                   handling, delivered, uiListening, uiProcessing, sessions, started>>

\* onSpeechError
SSpeechError ==
    /\ currentUserId # Null
    /\ engine \in {"recording", "ended"}
    /\ engine' = "idle"
    /\ vaListening' = FALSE
    /\ UNCHANGED <<now, backend, beyond, transcript, command, device, vaProcessing, finals,
                   handling, delivered, uiListening, uiProcessing, sessions, started>>

\* onSpeechResults up to await executeCommand
SSpeechResults(results0) ==
    /\ currentUserId # Null
    /\ engine \in {"recording", "ended"}
    /\ finals < MaxFinals
    /\ finals' = finals + 1
    /\ transcript' = lowerCase(results0)
    /\ command' = parseVoiceCommand(transcript', now)
    /\ vaProcessing' = TRUE
    /\ handling' = handling \cup {[id |-> finals + 1, command |-> command']}
    /\ UNCHANGED <<now, backend, beyond, device, vaListening, engine, delivered, uiListening,
                   uiProcessing, sessions, started>>

\* the callback left out: no result reaches the listener
onCommandResult_Silent(log, id, response) == log

\* onCommandResult, as setCommandResultCallback leaves it: the listener
\* receives the response; log is what it has received so far
onCommandResult(log, id, response) ==
    Append(log, [id |-> id, response |-> response])

\* onSpeechResults from the answer of the database on: the result goes to
\* the callback, which is App.handleVoiceResponse, and isProcessing is reset
SDone(h) ==
    /\ h \in handling
    /\ LET r == executeCommand(h.command, currentUserId, store, now, firestoreUp)
       IN  /\ store' = r.db
           /\ delivered' = onCommandResult(delivered, h.id, r.value)
           /\ reminders' = handleVoiceResponse(reminders, r.value)
    /\ uiProcessing' = FALSE
    /\ vaProcessing' = FALSE
    /\ handling' = handling \ {h}
    /\ UNCHANGED <<now, backend, beyond, transcript, command, currentUserId, appUserId, scheduled,
                   firestoreUp, notifeeUp, dev, vaListening, engine, finals, uiListening,
                   sessions, started>>

NextSession ==
    \/ DInit
    \/ \E ok \in BOOLEAN : UStart(ok)
    \/ \E ok \in BOOLEAN : UStop(ok)
    \/ SSpeechEnd
    \/ SSpeechError
    \/ \E results0 \in SessionResults : SSpeechResults(results0)
    \/ \E h \in handling : SDone(h)

SpecSession == InitAssistant /\ [][NextSession]_vars

\* the App's mount effect runs init, the database answers every call, the
\* engine ends every recording, and a user who sees the App listening
\* presses the button
SpecSessionFair ==
    /\ SpecSession
    /\ WF_vars(DInit)
    /\ WF_vars(\E h \in handling : SDone(h))
    /\ WF_vars(SSpeechEnd \/ SSpeechError)
    /\ WF_vars(\E ok \in BOOLEAN : UStop(ok))

----------------------------------------------------------------------------
(* Wake word: the module of initWakeWord and its calls in flight           *)

MaxWakeCalls == 4

\* what the wake word module and the account handlers never touch
apart == <<now, backend, transcript, command, device, session>>

\* a call suspended at its await; engine is the one it awaits, 0 for none
Suspended(fn, eng) == [k |-> wakeCalls + 1, fn |-> fn, engine |-> eng]

\* initWakeWord up to await PorcupineManager.fromBuiltInKeywords(...)
WInit ==
    /\ wakeCalls < MaxWakeCalls
    /\ wakeCalls' = wakeCalls + 1
    /\ waiting' = IF porcupine # 0 \/ ~accessKey THEN waiting
                  ELSE waiting \cup {Suspended("init", 0)}
    /\ UNCHANGED <<porcupine, wakeListening, engines, accessKey, account, apart>>

\* initWakeWord from the answer on: the engine created is assigned, or the
\* catch branch resets porcupine; ok: the engine could be created
WInitResume(w, ok) ==
    /\ w \in waiting /\ w.fn = "init"
    /\ waiting' = waiting \ {w}
    /\ engines' = IF ok THEN Append(engines, "live") ELSE engines
    /\ porcupine' = IF ok THEN Len(engines) + 1 ELSE 0
    /\ UNCHANGED <<wakeListening, wakeCalls, accessKey, account, apart>>

\* startWakeWord up to await porcupine.start()
WStart ==
    /\ wakeCalls < MaxWakeCalls
    /\ wakeCalls' = wakeCalls + 1
    /\ waiting' = IF porcupine = 0 \/ wakeListening THEN waiting
                  ELSE waiting \cup {Suspended("start", porcupine)}
    /\ UNCHANGED <<porcupine, wakeListening, engines, accessKey, account, apart>>

\* startWakeWord from the answer on
WStartResume(w, ok) ==
    /\ w \in waiting /\ w.fn = "start"
    /\ waiting' = waiting \ {w}
    /\ wakeListening' = IF ok THEN TRUE ELSE wakeListening
    /\ UNCHANGED <<porcupine, engines, wakeCalls, accessKey, account, apart>>

\* stopWakeWord up to await porcupine.stop()
WStop ==
    /\ wakeCalls < MaxWakeCalls
    /\ wakeCalls' = wakeCalls + 1
    /\ waiting' = IF porcupine = 0 \/ ~wakeListening THEN waiting
                  ELSE waiting \cup {Suspended("stop", porcupine)}
    /\ UNCHANGED <<porcupine, wakeListening, engines, accessKey, account, apart>>

\* stopWakeWord from the answer on: finally resets isListening
WStopResume(w) ==
    /\ w \in waiting /\ w.fn = "stop"
    /\ waiting' = waiting \ {w}
    /\ wakeListening' = FALSE
    /\ UNCHANGED <<porcupine, engines, wakeCalls, accessKey, account, apart>>

\* destroyWakeWord up to await porcupine.delete(); with no engine held it
\* runs through its finally block without suspending
WDestroy ==
    /\ wakeCalls < MaxWakeCalls
    /\ wakeCalls' = wakeCalls + 1
    /\ IF porcupine # 0
       THEN /\ waiting' = waiting \cup {Suspended("destroy", porcupine)}
            /\ UNCHANGED <<porcupine, wakeListening>>
       ELSE /\ porcupine' = 0
            /\ wakeListening' = FALSE
            /\ UNCHANGED waiting
    /\ UNCHANGED <<engines, accessKey, account, apart>>

\* destroyWakeWord from the answer on; ok: the engine was deleted
WDestroyResume(w, ok) ==
    /\ w \in waiting /\ w.fn = "destroy"
    /\ waiting' = waiting \ {w}
    /\ engines' = IF ok THEN [engines EXCEPT ![w.engine] = "deleted"] ELSE engines
    /\ porcupine' = 0
    /\ wakeListening' = FALSE
    /\ UNCHANGED <<wakeCalls, accessKey, account, apart>>

\* the App with the wake word module loaded, the access key set or not
InitWake ==
    /\ InitBackend
    /\ InitSession
    /\ InitEngines
    /\ InitAccount
    /\ accessKey \in BOOLEAN
    /\ currentUserId = Null
    /\ appUserId = Null
    /\ store = <<>>
    /\ reminders = <<>>
    /\ scheduled = {}
    /\ dev = NoHandler
    /\ firestoreUp = TRUE
    /\ notifeeUp = TRUE
    /\ now = 0
    /\ transcript = ""
    /\ command = NoCommand

NextWake ==
    \/ WInit
    \/ WStart
    \/ WStop
    \/ WDestroy
    \/ \E w \in waiting, ok \in BOOLEAN : WInitResume(w, ok)
    \/ \E w \in waiting, ok \in BOOLEAN : WStartResume(w, ok)
    \/ \E w \in waiting : WStopResume(w)
    \/ \E w \in waiting, ok \in BOOLEAN : WDestroyResume(w, ok)

SpecWake == InitWake /\ [][NextWake]_vars

----------------------------------------------------------------------------
(* Account: handleFirebaseLogin and the confirmed logout                   *)

MaxAccountCalls == 3

\* the addresses Firebase Auth hands over; Null: the user has none
Emails == {Null, Str("a@x.io"), Str("A@x.io")}

\* what the account handlers leave alone on the device
kept == <<currentUserId, reminders, scheduled, notifeeUp, dev>>

\* the documents of the users collection with this address
usersWhere(db, email) ==
    {i \in 1..Len(db) : db[i].collection = "users" /\ db[i].data.email = email}

\* firestoreService.getUserByEmail: the first match, or null when there is
\* none or the query fails
getUserByEmail(db, email, up) ==
    LET found == usersWhere(db, lowerCase(email))
    IN  IF up /\ found # {}
        THEN db[CHOOSE i \in found : \A j \in found : i <= j].id
        ELSE Null

\* firestoreService.createUser: the rejection of add is thrown again
createUser(db, userData, up) == add(db, "users", userData, up)

\* firestoreService.createUserSession
createUserSession(db, userId, up) == add(db, "userSessions", [userId |-> userId], up)

\* firestoreService.saveChatHistory
saveChatHistory(db, userId, sessionId, up) ==
    add(db, "chatHistory", [userId |-> userId, sessionId |-> sessionId], up)

\* the connection to Firestore comes or goes
ANetwork ==
    /\ firestoreUp' = ~firestoreUp
    /\ UNCHANGED <<now, backend, transcript, command, session, wake, account, kept,
                   appUserId, store>>

\* handleFirebaseLogin up to await getUserByEmail(email)
ALoginStart(email) ==
    /\ accountCalls < MaxAccountCalls
    /\ accountCalls' = accountCalls + 1
    /\ logins' = IF email = Null THEN logins
                 ELSE logins \cup {[k |-> accountCalls + 1, email |-> email.v,
                                    pc |-> "lookup", user |-> Null]}
    /\ UNCHANGED <<now, backend, transcript, command, session, wake, device,
                   currentSessionId, logout>>

\* the answer of the lookup, up to await createUser(...) or
\* await updateUserLogin(...)
ALookup(l) ==
    /\ l \in logins /\ l.pc = "lookup"
    /\ LET user == getUserByEmail(store, l.email, firestoreUp)
       IN  logins' = (logins \ {l}) \cup
                {[l EXCEPT !.pc = IF truthy(user) THEN "update" ELSE "create",
                           !.user = user]}
    /\ UNCHANGED <<now, backend, transcript, command, session, wake, device,
                   accountCalls, currentSessionId, logout>>

\* the answer of createUser, up to await getUser(userId); a rejection ends
\* the login in the catch branch
ARegister(l) ==
    /\ l \in logins /\ l.pc = "create"
    /\ LET r == createUser(store, [email |-> lowerCase(l.email)], firestoreUp)
       IN  /\ store' = r.db
           /\ logins' = IF r.kind = "throw" THEN logins \ {l}
                        ELSE (logins \ {l}) \cup {[l EXCEPT !.pc = "fetch", !.user = r.value]}
    /\ UNCHANGED <<now, backend, transcript, command, session, wake, kept, appUserId,
                   firestoreUp, accountCalls, currentSessionId, logout>>

\* the rest of handleFirebaseLogin: the user read back or its login time
\* updated, the App's state set, the session created
AEnter(l) ==
    /\ l \in logins /\ l.pc \in {"fetch", "update"}
    /\ logins' = logins \ {l}
    /\ IF l.pc = "fetch" /\ ~firestoreUp
       THEN UNCHANGED <<appUserId, store, currentSessionId>>
       ELSE LET r == createUserSession(store, l.user, firestoreUp)
            IN  /\ appUserId' = l.user
                /\ store' = r.db
                /\ currentSessionId' = IF r.kind = "throw" THEN currentSessionId
                                       ELSE r.value
    /\ UNCHANGED <<now, backend, transcript, command, session, wake, kept, firestoreUp,
                   accountCalls, logout>>

\* the next call of the logout handler
Calls(name, pc) == [pc |-> pc, called |-> Append(logout.called, name)]

\* the user confirms the logout: the handler runs up to its first await;
\* chat: messages.length > 1
ALogoutPress(chat) ==
    /\ accountCalls < MaxAccountCalls
    /\ logout.pc \in {"idle", "done"}
    /\ accountCalls' = accountCalls + 1
    /\ logout' = LET fresh == [pc |-> "idle", called |-> <<>>]
                     call(name) == [pc |-> name, called |-> <<name>>]
                 IN  IF truthy(appUserId) /\ truthy(currentSessionId) /\ chat
                     THEN call("saveChatHistory")
                     ELSE IF truthy(currentSessionId)
                     THEN call("endUserSession")
                     ELSE call("signOut")
    /\ UNCHANGED <<now, backend, transcript, command, session, wake, device, logins,
                   currentSessionId>>

\* the handler resumes from the call it awaits; ok: auth().signOut() resolves
ALogoutStep(ok) ==
    /\ logout.pc \in {"saveChatHistory", "endUserSession", "signOut", "again"}
    /\ IF logout.pc = "saveChatHistory"
       THEN LET r == saveChatHistory(store, appUserId, currentSessionId, firestoreUp)
            IN  /\ store' = r.db
                /\ logout' = IF r.kind = "throw" THEN Calls("signOut", "again")
                             ELSE Calls("endUserSession", "endUserSession")
       ELSE /\ UNCHANGED store
            /\ logout' = IF logout.pc = "endUserSession" THEN Calls("signOut", "signOut")
                         ELSE IF logout.pc = "signOut" /\ ~ok THEN Calls("signOut", "again")
                         ELSE [logout EXCEPT !.pc = "done"]
    /\ UNCHANGED <<now, backend, transcript, command, session, wake, kept, appUserId,
                   firestoreUp, logins, accountCalls, currentSessionId>>

NextAccount ==
    \/ ANetwork
    \/ \E email \in Emails : ALoginStart(email)
    \/ \E l \in logins : ALookup(l)
    \/ \E l \in logins : ARegister(l)
    \/ \E l \in logins : AEnter(l)
    \/ \E chat \in BOOLEAN : ALogoutPress(chat)
    \/ \E ok \in BOOLEAN : ALogoutStep(ok)

SpecAccount == InitAssistant /\ [][NextAccount]_vars

----------------------------------------------------------------------------
(* Properties of the cache                                                 *)

ClaimTtl(type) == IF type = "weather" THEN 600000 ELSE 900000

\* the entry of store c that a (type, identifier) pair addresses
Addresses(e, type, identifier) ==
    /\ Len(e.key) = Len(identifier) + 2
    /\ e.key[1] = type
    /\ SameUpToCase(SubSeq(e.key, 3, Len(e.key)), identifier)

Range(c) == {c[i] : i \in 1..Len(c)}

\* C1: a get after a set of the same type and of an identifier equal up to
\* letter case returns the value set while now <= createdAt + ttl(type), and
\* absent afterwards, as long as the key was not removed, cleared,
\* force-refreshed or evicted in between.
C1_RoundTrip ==
    ret.op = "get" =>
        \A r \in lastSet :
            (r.type = ret.type /\ SameUpToCase(r.id, ret.id)) =>
                /\ now <= r.at + ClaimTtl(r.type) => ret.result = r.data
                /\ now > r.at + ClaimTtl(r.type) => ret.result = Null

\* a get with the other letter case hits at the last instant of the TTL
C1_Witness ==
    /\ ret.op = "get" /\ ret.type = "weather" /\ ret.id = <<"n", "Y">>
    /\ ret.result = [tag |-> "W1"]
    /\ now = 600000
    /\ \E r \in lastSet : r.type = "weather" /\ r.id = <<"N", "y">> /\ r.at = 0

\* C2: with maxItems = 50 the store never holds more than maxItems entries.
C2_Capacity == maxItems = 50 /\ Len(cache) <= maxItems

\* a set found the store full, the eviction pass ran and the entry went in
C2_Witness == ret.op = "set" /\ Len(cache) = maxItems - 10 + 1

SubsequenceOf(c2, c) == c2 = SelectSeq(c, LAMBDA e : e \in Range(c2))

EvictionPolicy(c, c2, t) ==
    LET live == {e \in Range(c) : t <= e.expiresAt}
    IN  /\ SubsequenceOf(c2, c)
        /\ \A e \in Range(c2) : t <= e.expiresAt
        /\ Cardinality(live) < maxItems => Range(c2) = live
        /\ Cardinality(live) >= maxItems =>
              /\ Len(c2) <= maxItems - 10
              /\ Len(c2) = maxItems - 10
              /\ \A r \in live \ Range(c2) : \A e \in Range(c2) :
                     r.timestamp <= e.timestamp

\* C5: an eviction pass removes every expired entry; it removes live entries
\* only if maxItems or more are live, then oldest createdAt first down to
\* maxItems - 10 entries, and otherwise no live entry.
C5_EvictionPolicy == [][ret'.op = "cleanup" => EvictionPolicy(cache, cache', now)]_vars

\* a pass on a full store of live entries kept an entry that is first in Map
\* order and newer than the rest
C5_Witness ==
    /\ ret.op = "cleanup"
    /\ Len(cache) = maxItems - 10
    /\ cache[1].timestamp > cache[2].timestamp

\* C6 as claimed: a set of a key that is already stored removes no other entry
C6_SetOfPresentKeyKeepsOthers ==
    [][(ret'.op = "set" /\ \E e \in Range(cache) : Addresses(e, ret'.type, ret'.id))
          => MapKeys(cache') = MapKeys(cache)]_vars

ReadSpec(c, c2, t, r) ==
    LET hit == {e \in Range(c) : Addresses(e, r.type, r.id) /\ t <= e.expiresAt}
        stale == {e \in Range(c) : Addresses(e, r.type, r.id) /\ t > e.expiresAt}
    IN  /\ r.op = "get" => /\ hit # {} => \E e \in hit : r.result = e.data
                           /\ hit = {} => r.result = Null
        /\ r.op = "has" => r.result = (hit # {})
        /\ stale # {} => /\ Range(c2) = Range(c) \ stale
                         /\ Cardinality(stale) = 1
                         /\ SubsequenceOf(c2, c)
        /\ stale = {} => c2 = c

\* C7: get and has hit exactly when an entry exists with now <= expiresAt; on
\* an expired entry they delete that entry and nothing else; on a live or a
\* missing key, and in every getCacheAge, the store is left as it was.
C7_LazyExpiry ==
    [][/\ ret'.op \in {"get", "has"} => ReadSpec(cache, cache', now, ret')
       /\ ret'.op = "getCacheAge" => cache' = cache]_vars

\* a get found its entry expired and deleted it, and the other entry stayed
C7_Witness ==
    /\ ret.op = "get" /\ ret.result = Null
    /\ Len(cache) = 1
    /\ \E r \in lastSet :
          /\ r.type = ret.type /\ SameUpToCase(r.id, ret.id)
          /\ now > r.at + ClaimTtl(r.type)
          /\ cache[1].key[1] # r.type

----------------------------------------------------------------------------
(* Properties of the weather service                                       *)

\* a step that starts a service call
StartsCall == calls' = calls + 1

\* a step in which a pending call resumes with the gateway's response
CompletesCall == wev'.ev = "done" /\ pending' # pending

\* C3: forceRefresh(type, id) followed immediately by get(type, id) returns
\* absent, whatever the state of the entry was before; and
\* forceRefreshWeather(city) always issues a gateway request and never
\* serves the cached value.
C3_ForceRefreshThenMiss ==
    [][/\ (/\ ret.op = "forceRefresh"
           /\ ret'.op = "get"
           /\ ret'.type = ret.type
           /\ SameUpToCase(ret'.id, ret.id)) => ret'.result = Null
       /\ (StartsCall /\ wev'.via = "forceRefreshWeather") =>
              /\ wev'.ev = "request"
              /\ fetchCount' = fetchCount + 1
              /\ \E p \in pending' : p.id = wev'.id]_vars

\* forceRefreshWeather of a city whose entry was live: the get inside the
\* call missed and the request went out
C3_Witness ==
    /\ wev.via = "forceRefreshWeather"
    /\ wev.hadLive
    /\ wev.ev = "request"
    /\ ret.op = "get"
    /\ ret.result = Null
    /\ fetchCount = 2

\* C4: read idempotence.  Two consecutive, non-overlapping getCurrentWeather
\* calls for the same city in any letter case, the first of which stored
\* its result and the second of which starts within the weather TTL of that
\* store: the second call issues no gateway request and returns the value
\* the first call stored.
C4_ReadIdempotence ==
    [][(/\ wev.ev = "done"
        /\ wev.fn = "getCurrentWeather"
        /\ wev.stored
        /\ pending = {}
        /\ StartsCall
        /\ wev'.fn = "getCurrentWeather"
        /\ wev'.via = "direct"
        /\ SameUpToCase(wev'.arg, wev.arg)
        /\ \E r \in lastSet :
              /\ r.type = "weather"
              /\ SameUpToCase(r.id, wev.arg)
              /\ r.data = wev.result
              /\ now <= r.at + 10 * 60 * 1000)
       => /\ wev'.ev = "served"
          /\ wev'.result = wev.result
          /\ fetchCount' = fetchCount
          /\ pending' = {}]_vars

\* the second call, in the other letter case, at the last instant of the TTL
C4_Witness ==
    /\ wev.ev = "served"
    /\ wev.fn = "getCurrentWeather"
    /\ wev.id = 2
    /\ wev.arg = <<"n", "Y">>
    /\ wev.result # Null
    /\ fetchCount = 1
    /\ now = weatherTTL
    /\ \E r \in lastSet : r.id = <<"N", "y">> /\ r.at = 0 /\ r.data = wev.result

\* the entries of store c that getCurrentWeather(city) addresses
EntriesOf(c, city) == {i \in 1..Len(c) : Addresses(c[i], "weather", city)}

\* a getCurrentWeather call for the key of city is waiting for its response
InFlight(city) ==
    \E p \in pending : p.fn = "getCurrentWeather" /\ SameUpToCase(p.arg, city)

\* C22 as stated: when the second of two overlapping getCurrentWeather calls
\* for one key completes, the cache holds exactly one entry for the key, with
\* the value and the creation time written by that call.
C22_LastCompleterWins ==
    [][(/\ CompletesCall
        /\ wev'.fn = "getCurrentWeather"
        /\ wev.ev = "done"
        /\ wev.fn = "getCurrentWeather"
        /\ wev.id # wev'.id
        /\ SameUpToCase(wev.arg, wev'.arg)
        /\ pending' = {})
       => \E i \in 1..Len(cache') :
              /\ EntriesOf(cache', wev'.arg) = {i}
              /\ cache'[i].data = wev'.result
              /\ cache'[i].timestamp = now]_vars

\* C22, amended: there is no single flight.  A getCurrentWeather call that
\* starts while another call for the same key is in flight, and finds no
\* live entry, misses and issues its own gateway request.  A call that
\* completes with a usable response leaves exactly one entry for the key,
\* holding its value and its completion time; a call that completes
\* otherwise leaves the cache as it is.  The store never holds two entries
\* for a key nor more than maxItems entries.
C22_NoSingleFlight ==
    [][/\ (/\ StartsCall
           /\ wev'.fn = "getCurrentWeather"
           /\ wev'.via = "direct"
           /\ InFlight(wev'.arg)
           /\ \A i \in EntriesOf(cache, wev'.arg) : now > cache[i].expiresAt)
          => /\ wev'.ev = "request"
             /\ fetchCount' = fetchCount + 1
             /\ Cardinality(pending') = Cardinality(pending) + 1
       /\ (CompletesCall /\ wev'.fn = "getCurrentWeather") =>
             IF wev'.stored
             THEN \E i \in 1..Len(cache') :
                      /\ EntriesOf(cache', wev'.arg) = {i}
                      /\ cache'[i].data = wev'.result
                      /\ cache'[i].timestamp = now
             ELSE cache' = cache
       /\ \A city \in Cities : Cardinality(EntriesOf(cache', city)) <= 1
       /\ Len(cache') <= maxItems]_vars

\* two calls for one key, in different letter case, are in flight and both
\* have issued a request
C22_Witness ==
    /\ \E p, q \in pending :
           /\ p.id = 1 /\ q.id = 2
           /\ p.fn = "getCurrentWeather" /\ q.fn = "getCurrentWeather"
           /\ p.arg = <<"N", "y">> /\ q.arg = <<"n", "Y">>
    /\ wev.ev = "request"
    /\ fetchCount = 2
    /\ cache = <<>>

\* outcomes of the external call that are failures for every weather
\* function: no response, a status outside 2xx, a body that is not JSON, a
\* JSON body without the expected members
WeatherFailures == {"networkError", "http404", "http500", "badJson", "empty", "partial"}

\* C8: for every failing outcome of the external call the three weather
\* functions complete by returning null or an empty list, never by
\* throwing, and leave the cache content as it was.
C8_FailuresNeverPropagate ==
    [][(CompletesCall /\ wev'.fn \in WeatherFns /\ wev'.outcome \in WeatherFailures)
          => /\ wev'.completion = "return"
             /\ wev'.result \in {Null, EmptyList}
             /\ cache' = cache]_vars

----------------------------------------------------------------------------
(* Properties of the news service                                          *)

\* outcomes of the external call that are failures: no response, a status
\* outside 2xx, a body that is not JSON
NewsFailures == {"networkError", "http429", "http500", "badJson"}

\* C9: mock fallback is opt-in.  No demo / offline mode exists in the
\* configuration, so a news operation whose gateway call failed surfaces
\* the failure (it throws, or returns null or an empty list) and does not
\* return the fixed mock articles.
C9_MockFallbackOptIn ==
    [][(CompletesCall /\ wev'.fn \in NewsFns /\ wev'.outcome \in NewsFailures)
          => /\ wev'.result # getMockNewsData
             /\ \/ wev'.completion = "throw"
                \/ wev'.result \in {Null, EmptyList}]_vars

\* the articles the filtering rule keeps: neither title nor description is
\* the sentinel; then the first ten of them, in gateway order
KeptArticles(articles) ==
    LET rest == SelectSeq(articles,
                          LAMBDA a : a.title # Removed /\ a.description # Removed)
    IN  SubSeq(rest, 1, IF Len(rest) < 10 THEN Len(rest) ELSE 10)

\* C10: for every news operation and every gateway payload with a list of
\* articles, the list returned (and, where the operation caches, the list
\* cached) has no article whose title or description is "[Removed]", has
\* at most 10 articles, and is the first 10 of the remaining articles in
\* gateway order.
C10_NewsFiltering ==
    [][\A r \in NewsOutcomes :
          (/\ CompletesCall
           /\ wev'.fn \in NewsFns
           /\ wev'.outcome = r.name
           /\ r.name \in {"long", "mixed", "clean"})
          => /\ wev'.completion = "return"
             /\ wev'.result = Array(KeptArticles(r.body.articles.items))
             /\ wev'.stored =>
                    \E e \in Range(cache') : e.data = wev'.result]_vars

----------------------------------------------------------------------------
(* Properties of the intent parser                                         *)

Parsed == command # NoCommand

\* C11: the confidence of every parsed command lies in [0, 1].
C11_ConfidenceRange ==
    Parsed => command.confidence >= 0 /\ command.confidence <= 10

\* the documented action words of a category
ActionWords(c) ==
    CASE c = "create" -> {"create", "add", "set", "make", "new"}
      [] c = "get" -> {"get", "show", "find", "list", "what"}
      [] c = "update" -> {"update", "change", "modify", "edit"}
      [] c = "delete" -> {"delete", "remove", "cancel", "clear"}

ActionCategories == {"create", "get", "update", "delete"}

CategoriesIn(t) ==
    {c \in ActionCategories : \E k \in ActionWords(c) : includes(t, k)}

DomainWords ==
    {"reminder", "remind", "meeting", "appointment", "task", "todo", "note", "memo"}

\* C12: an utterance with an action word of exactly one category is parsed
\* to that category's action; with an action word and a domain word the
\* confidence is at least 0.7.
C12_ActionDetection ==
    Parsed =>
        /\ \A c \in ActionCategories :
               CategoriesIn(transcript) = {c} => command.action = c
        /\ (CategoriesIn(transcript) # {}
                /\ \E k \in DomainWords : includes(transcript, k))
               => command.confidence >= 7

NoRelativeDay(t) ==
    ~includes(t, "today") /\ ~includes(t, "tomorrow") /\ ~includes(t, "next week")

NamedDays(t) == {k \in 0..6 : includes(t, days[k + 1])}

\* days from weekday `from` to the next weekday `to` strictly after it
DaysUntilNext(from, to) == ((to - from + 6) % 7) + 1

\* C13: an utterance that names a weekday and matches no earlier date form
\* resolves to the next occurrence of that weekday strictly after the
\* current date, 1 to 7 days ahead; on the named weekday itself, 7 days.
C13_WeekdayResolution ==
    (/\ Parsed
     /\ NoRelativeDay(transcript)
     /\ timeMatch(transcript) = Undefined
     /\ Cardinality(NamedDays(transcript)) = 1)
    => \E k \in NamedDays(transcript) :
          command.dueDate = DateOf(now + DaysUntilNext(getDay(now), k) * DayMs)

\* the clock times H[:MM] am/pm written in an utterance, H in 1..12
ExplicitTimes(t) ==
    {clockAt(t, i) : i \in {k \in 1..Len(t) :
         /\ isDigit(charAt(t, k))
         /\ ~isDigit(charAt(t, k - 1))
         /\ charAt(t, k - 1) # ":"
         /\ clockAt(t, k).period # "none"
         /\ clockAt(t, k).hour \in 1..12}}

\* 12-hour to 24-hour conversion
Hour24(h, period) ==
    IF period = "am" THEN (IF h = 12 THEN 0 ELSE h)
    ELSE (IF h = 12 THEN 12 ELSE h + 12)

StartOfDay(t) == (t \div DayMs) * DayMs

\* C14: an explicit clock time H[:MM] am/pm resolves to the current date at
\* the converted 24-hour time, minutes MM or 0, seconds 0; and every
\* matched clock time resolves to an instant of the current calendar date.
C14_ClockTime ==
    (Parsed /\ NoRelativeDay(transcript)) =>
        /\ \A c \in ExplicitTimes(transcript) :
               ExplicitTimes(transcript) = {c} =>
                   command.dueDate =
                       DateOf(StartOfDay(now) + Hour24(c.hour, c.period) * HourMs
                                 + c.minute * Minute)
        /\ timeMatch(transcript) # Undefined =>
               /\ command.dueDate # Undefined
               /\ StartOfDay(command.dueDate.ms) = StartOfDay(now)

\* C15: "create reminder for team meeting tomorrow" parses to a reminder,
\* action create, title "team meeting", due one day from now, with a
\* confidence of about 0.9.
C15_ExampleParse ==
    (Parsed /\ transcript = "create reminder for team meeting tomorrow") =>
        /\ command.type = "reminder"
        /\ command.action = "create"
        /\ command.title = Str("team meeting")
        /\ command.dueDate = DateOf(now + DayMs)
        /\ command.confidence = 9

\* C20: the due date is that of the first matching form in the order today,
\* tomorrow, next week, clock time, weekday; with no matching form the
\* command has no due date and its confidence has no date bonus.
C20_DatePriority ==
    Parsed =>
        LET t == transcript
            clock == timeMatch(t)
        IN  IF includes(t, "today") THEN command.dueDate = DateOf(now)
            ELSE IF includes(t, "tomorrow") THEN command.dueDate = DateOf(now + DayMs)
            ELSE IF includes(t, "next week")
                 THEN command.dueDate = DateOf(now + 7 * DayMs)
            ELSE IF clock # Undefined
                 THEN /\ command.dueDate # Undefined
                      /\ command.dueDate.ms % DayMs =
                             (adjustedHour(clock.hour, clock.period) * HourMs
                                 + clock.minute * Minute) % DayMs
            ELSE IF NamedDays(t) # {}
                 THEN /\ command.dueDate # Undefined
                      /\ \E k \in NamedDays(t) : getDay(command.dueDate.ms) = k
                      /\ command.dueDate.ms % DayMs = now % DayMs
            ELSE /\ command.dueDate = Undefined
                 /\ command.confidence =
                        5 + parseAction(t).bonus + parseType(t).bonus
                          + parsePriority(t).bonus
                          + (IF command.title # Undefined THEN 2 ELSE 0)

\* an utterance with "today" and a clock time, heard at another time of day
C20_Witness ==
    /\ Parsed
    /\ transcript = "create reminder today at 3 pm"
    /\ now % DayMs = OddTime
    /\ command.dueDate = DateOf(now)

\* the priority keywords
HighWords == {"urgent", "important", "high priority", "critical"}
LowWords == {"low priority", "not urgent"}

\* C21: the priority is high when the utterance contains a high keyword, low
\* when it contains a low keyword and no high keyword, otherwise medium; and
\* the confidence is the one the action, the type, the title and the date
\* give, with nothing added for the priority.
C21_PriorityExtraction ==
    Parsed =>
        /\ command.priority =
               IF \E w \in HighWords : includes(transcript, w) THEN "high"
               ELSE IF \E w \in LowWords : includes(transcript, w) THEN "low"
               ELSE "medium"
        /\ command.confidence =
               5 + parseAction(transcript).bonus + parseType(transcript).bonus
                 + (IF command.title # Undefined THEN 2 ELSE 0)
                 + (IF command.dueDate # Undefined THEN 2 ELSE 0)

----------------------------------------------------------------------------
(* Properties of the command dispatcher, the reminder form and the         *)
(* scheduler                                                               *)

\* the step is a run of the handler fn
Runs(fn) == dev'.n = dev.n + 1 /\ dev'.fn = fn

\* the step adds a reminder document to the database
Persists == Len(store') = Len(store) + 1 /\ store'[Len(store')].collection = "reminders"

\* the due date of the document the step adds
PersistedDue == store'[Len(store')].data.dueDate.ms

\* C16: whenever a create for a reminder, meeting or task has been persisted
\* with a due date in the future, by the voice dispatcher or by the reminder
\* form, and the platform accepts requests, a notification is scheduled
\* whose fire time is that due date, also when the due date is less than two
\* minutes ahead.
C16_NotificationAfterCreate ==
    [][(Persists /\ PersistedDue > now /\ notifeeUp)
           => \E n \in scheduled' : n.timestamp = PersistedDue]_vars

\* the form passes the two checks that precede the persistence call
Submits(form) == trim(form.title) # "" /\ appUserId # Null

\* C17: in createReminder scheduling happens only after the persistence call
\* succeeded; when that call succeeded the reminder is persisted and is in
\* the reminder list whether or not a notification was scheduled; when it
\* failed no notification is scheduled and the list is unchanged.
C17_SaveSurvivesSchedulingFailure ==
    [][Runs("createReminder") =>
        /\ scheduled' # scheduled => Persists
        /\ (Submits(dev'.input) /\ firestoreUp) =>
              /\ Persists
              /\ SubSeq(store', 1, Len(store)) = store
              /\ store'[Len(store')].data.title = Str(dev'.input.title)
              /\ Len(reminders') = Len(reminders) + 1
              /\ SubSeq(reminders', 1, Len(reminders)) = reminders
              /\ reminders'[Len(reminders')].id = store'[Len(store')].id
        /\ (Submits(dev'.input) /\ ~firestoreUp) =>
              /\ store' = store
              /\ scheduled' = scheduled
              /\ reminders' = reminders]_vars

\* a reminder was saved while the platform refused its notification
C17_Witness ==
    /\ dev.fn = "createReminder"
    /\ dev.result = Str("saved, scheduling failed")
    /\ dev.input.date = FormDate(0) /\ dev.input.time = FormTime(0, 5)
    /\ ~notifeeUp
    /\ now = 0
    /\ scheduled = {}
    /\ Len(store) = 1
    /\ Len(reminders) = 1 /\ reminders[1].id = store[1].id

Domains == {"reminder", "meeting", "task", "note"}

\* C18: executeCommand completes with a result for every command and every
\* state of the database; a missing user id, an unknown domain, an
\* unsupported action or a failed persistence call gives success = false; a
\* create for a reminder, meeting, task or note gives success = true when
\* the database accepts the call.
C18_UniformResult ==
    [][Runs("onSpeechResults") =>
        LET c == command'
            response == dev'.result.response
        IN  /\ dev'.result.completion = "return"
            /\ response.success \in BOOLEAN
            /\ currentUserId = Null => ~response.success
            /\ c.type \notin Domains => ~response.success
            /\ c.action \notin {"create", "get"} => ~response.success
            /\ (c.action = "create" /\ c.type \in Domains /\ ~firestoreUp)
                   => ~response.success
            /\ (c.action = "create" /\ c.type \in Domains /\ firestoreUp
                    /\ currentUserId # Null) => response.success]_vars

\* the offsets of a scheduling request
OffsetsOf(input) ==
    IF input.alertMinutes = Undefined THEN <<15, 5, 0>> ELSE input.alertMinutes.items

\* the offsets of a request whose fire time is strictly after the instant t
DueOffsets(input, t) ==
    SelectSeq(OffsetsOf(input), LAMBDA m : input.timestampMs - m * Minute > t)

\* the trigger the platform holds under the id, as a set of at most one
TriggerOf(platform, id) == {n \in platform : n.id = id}

\* C19 as stated: scheduleReminderWithAlerts schedules exactly one
\* notification at T - m minutes for each offset m whose fire time is
\* strictly after now and none for the other offsets, with one id returned
\* per scheduled notification; scheduleNotification with a timestamp that is
\* not after now schedules nothing and returns no id.
C19_MultiOffsetScheduling ==
    [][/\ Runs("scheduleReminderWithAlerts") =>
            LET input == dev'.input
                due == DueOffsets(input, now)
            IN  /\ \A i \in 1..Len(due) :
                       TriggerOf(scheduled', AlertId(input.id, due[i]))
                           = {[id |-> AlertId(input.id, due[i]),
                               timestamp |-> input.timestampMs - due[i] * Minute]}
                /\ \A n \in scheduled' \ scheduled :
                       \E i \in 1..Len(due) : n.id = AlertId(input.id, due[i])
                /\ Len(dev'.result.items) = Cardinality({due[i] : i \in 1..Len(due)})
       /\ (Runs("scheduleNotification") /\ dev'.input.timestampMs <= now) =>
            /\ scheduled' = scheduled
            /\ dev'.result = Undefined]_vars

\* C19, amended: while the platform accepts requests,
\* scheduleReminderWithAlerts leaves exactly one notification, at T - m
\* minutes, for each offset m whose fire time is strictly after now, touches
\* no other notification, and returns one id per such offset in the order of
\* the offsets (an offset given twice gives its id twice); while the platform
\* refuses, it schedules nothing and returns no id.  scheduleNotification
\* with a timestamp that is not after now schedules nothing and returns
\* undefined.
C19_MultiOffsetWhenAccepted ==
    [][/\ Runs("scheduleReminderWithAlerts") =>
            LET input == dev'.input
                due == DueOffsets(input, now)
            IN  IF notifeeUp
                THEN /\ \A i \in 1..Len(due) :
                            TriggerOf(scheduled', AlertId(input.id, due[i]))
                                = {[id |-> AlertId(input.id, due[i]),
                                    timestamp |-> input.timestampMs - due[i] * Minute]}
                     /\ \A n \in (scheduled' \ scheduled) \cup (scheduled \ scheduled') :
                            \E i \in 1..Len(due) : n.id = AlertId(input.id, due[i])
                     /\ dev'.result
                            = Array([i \in 1..Len(due) |-> AlertId(input.id, due[i])])
                ELSE scheduled' = scheduled /\ dev'.result = Array(<<>>)
       /\ (Runs("scheduleNotification") /\ dev'.input.timestampMs <= now) =>
            /\ scheduled' = scheduled
            /\ dev'.result = Undefined]_vars

\* the default offsets for a reminder due in 15 minutes: the alert 15
\* minutes before would fire now and is left out, the other two are scheduled
C19_Witness ==
    /\ dev.fn = "scheduleReminderWithAlerts"
    /\ dev.input.alertMinutes = Undefined
    /\ dev.input.timestampMs = 15 * Minute
    /\ now = 0
    /\ notifeeUp
    /\ dev.result = Array(<<AlertId(Str("r1"), 5), AlertId(Str("r1"), 0)>>)
    /\ scheduled = {[id |-> AlertId(Str("r1"), 5), timestamp |-> 10 * Minute],
                    [id |-> AlertId(Str("r1"), 0), timestamp |-> 15 * Minute]}

----------------------------------------------------------------------------
(* Properties of the listening sessions                                    *)

\* the step is a call of VoiceAssistant.startListening
CallsStartListening == started'.n = started.n + 1

\* C23: while a final transcript is being handled, startListening returns
\* false and does not start the speech engine.
C23_NoListeningWhileProcessing ==
    [][(CallsStartListening /\ handling # {})
           => /\ ~started'.result
              /\ ~started'.engine
              /\ engine' = engine]_vars

\* the ids of the final-result events whose handling has finished
Finished == {id \in 1..finals : \A h \in handling : h.id # id}

\* the invocations of the callback for the event id
Deliveries(id) == {i \in 1..Len(delivered) : delivered[i].id = id}

\* the step finishes the handling of the final-result event id
Finishes(id) ==
    /\ \E h \in handling : h.id = id
    /\ \A h \in handling' : h.id # id

\* C24: the callback has been invoked exactly once, with a result, for
\* every final-result event whose handling has finished and not at all for
\* one still being handled; the step that finishes a handling is the one
\* that invokes it, and it leaves isProcessing false.
C24_OneResultPerTranscript ==
    /\ [](/\ \A id \in Finished : Cardinality(Deliveries(id)) = 1
          /\ \A id \in (1..finals) \ Finished : Deliveries(id) = {}
          /\ \A i \in 1..Len(delivered) : delivered[i].response.success \in BOOLEAN)
    /\ [][\A id \in 1..finals :
             Finishes(id) => /\ Len(delivered') = Len(delivered) + 1
                             /\ delivered'[Len(delivered')].id = id
                             /\ ~vaProcessing']_vars

\* two final results of one session were handled concurrently and each got
\* its own result
C24_Witness ==
    /\ finals = 2
    /\ sessions = 1
    /\ handling = {}
    /\ Len(delivered) = 2
    /\ delivered[1].id = 2 /\ delivered[2].id = 1
    /\ delivered[1].response.success /\ ~delivered[2].response.success
    /\ ~vaProcessing

\* C25: whenever the App is listening or processing it later reaches a
\* state with isListening and isProcessing both false, in which a press of
\* the voice button starts a session.
C25_VoiceUiRecovers ==
    (uiListening \/ uiProcessing) ~> (~uiListening /\ ~uiProcessing)

----------------------------------------------------------------------------
(* Properties of the wake word module                                      *)

\* C26: whenever the module's isListening is true, porcupine is not null.
C26_ListeningImpliesEngine == wakeListening => porcupine # 0

\* the engines created and not deleted
Live == {e \in 1..Len(engines) : engines[e] = "live"}

\* C27: at most one engine that was created and not deleted exists, and
\* every engine created is the one held in porcupine or has been deleted.
C27_SingleEngine ==
    /\ Cardinality(Live) <= 1
    /\ \A e \in Live : porcupine = e

----------------------------------------------------------------------------
(* Properties of the account handlers                                      *)

\* the positions of the calls of name in the log of a logout
At(name) == {i \in 1..Len(logout.called) : logout.called[i] = name}

\* C28: a finished logout has invoked signOut exactly once, as its last
\* call, after saving the chat history and after ending the session.
C28_LogoutSignsOut ==
    logout.pc = "done" =>
        /\ Cardinality(At("signOut")) = 1
        /\ logout.called[Len(logout.called)] = "signOut"
        /\ \A i \in At("saveChatHistory"), j \in At("endUserSession") : i < j

\* C29: the users collection holds at most one document for an address.
C29_NoDuplicateUser ==
    \A email \in {"a@x.io", "A@x.io"} : Cardinality(usersWhere(store, email)) <= 1

----------------------------------------------------------------------------
(* Properties of the notification actions                                  *)

\* the reminder a notification id belongs to
RECURSIVE reminderOf(_)
reminderOf(id) ==
    IF id.tag = "alert" THEN reminderOf(id.id)
    ELSE IF id.tag = "snoozed" THEN reminderOf(id.of)
    ELSE id

\* the notifications of the reminder still to fire after the instant t
PendingOf(platform, reminder, t) ==
    {n \in platform : reminderOf(n.id) = reminder /\ n.timestamp > t}

\* the step is a press of actionId
Presses(actionId) ==
    Runs("handleNotificationAction") /\ dev'.input.actionId = actionId

====
